---- MODULE Spec2Model ----
(***************************************************************************)
(* A model of the RegLand genomics API (cross_species_expression_gwas):    *)
(* the conservation-matrix builder of regland_api/utils.py in its two      *)
(* copies, the enhancer interval query that feeds the base copy, the       *)
(* tissue-coverage classification, the region resolver, the cached        *)
(* get_combined_region_data, the expression table of the request threads,  *)
(* the three enhancer queries, the sizes of the query results,             *)
(* APIResponseCacheMiddleware with the health check behind it,             *)
(* ReadOnlyDatabaseMiddleware, the management commands migrate_to_mysql    *)
(* and load_expression_data, and the quality answers of views.py           *)
(* (combined_gene_data, data_quality_summary).                             *)
(*                                                                         *)
(* Python floats are modelled as exact rationals <<num, den>> in lowest    *)
(* terms with den > 0.  The only float arithmetic of the builder is        *)
(* start + i * ((end - start) / nbins), (a + b) / 2 and val / max_val on   *)
(* small integers; where the statement of a property depends on the        *)
(* arithmetic being exact this is said at the property.                    *)
(***************************************************************************)
EXTENDS Integers, Sequences, FiniteSets, TLC

VARIABLES
    enhancers_all,   \* rows of the enhancers_all table joined with enhancer_class
    call,            \* the last call of a builder: its function and arguments
    matrix_data,     \* what that call returned (a dict) or raised
    enhancers_hiconf,\* the enhancers_hiconf view: rows per <<species_id, tissue>>
    coverage_call,   \* the last call of get_tissue_coverage_stats
    tissue_stats,    \* the rows that call returned
    genes,           \* rows of the genes table
    region_call,     \* the last call of get_gene_region: its arguments
    gene_region,     \* what that call returned: a region dict or None
    region_response, \* the HTTP response of the endpoint that looked the gene up
    database,        \* the tables get_combined_region_data reads
    django_cache,    \* django.core.cache: key -> result of get_combined_region_data
    stored_for,      \* key -> the arguments of the call that stored the entry
    combined_call,   \* the arguments of the last call of get_combined_region_data
    combined_result, \* what that call returned
    answered_for,    \* the arguments of the call that computed combined_result
    calls_made,      \* the number of calls of get_combined_region_data so far
    _expression_cache, \* the module global of utils.py: None or the expression table
    expression_file, \* data/expression_tpm.tsv: "missing" or "present"
    expression_data_cache, \* the django cache entry 'expression_data_cache', or None
    pc,              \* where each request thread is in get_expression_data_cached
    expr_args,       \* the arguments of each thread's call
    loaded,          \* what load_expression_cache returned to each thread
    expr_result,     \* what each thread's call returned
    load_calls,      \* how often load_expression_cache has been invoked
    assignments,     \* how often _expression_cache has been assigned
    query_db,        \* the tables enhancers_all and enhancer_class of the enhancer queries
    query_call,      \* the last call of an enhancer query: its function and arguments
    query_result,    \* what that call returned (a record list, under rows) or raised
    rows_matching,   \* per relation: how many of its rows meet the WHERE clause of a query
    cap_call,        \* the last interval query issued: its function
    rows_fetched,    \* how many rows that query returned
    builder_records, \* how many records the matrix builder was last given
    db_reachable,    \* whether the database answers queries
    api_cache,       \* django.core.cache: the entries under the api_cache_ keys
    request,         \* the last request APIResponseCacheMiddleware was called with
    db_on_arrival,   \* whether the database was reachable when that request arrived
    response,        \* the response the middleware returned for it
    handler_invoked, \* whether the wrapped handler ran for it
    select_1_ok,     \* whether a SELECT 1 succeeded for it
    api_stored_for,  \* per api_cache key: the path and query string of the storing request
    entry_on_arrival,\* the api_cache entry under the request's key when it arrived, or None
    settings,        \* DEBUG and the engine of DATABASES[default]
    query_only,      \* whether the connection is in query_only mode
    readonly_pc,     \* where the request is in ReadOnlyDatabaseMiddleware.__call__
    pragma,          \* how set_readonly ended for the request, or that it was not issued
    pragmas_issued,  \* how often the pragma has been issued
    handler_ran,     \* whether the wrapped handler ran for the request
    rows_written,    \* how many rows handlers have written
    requests_seen,   \* how many requests have entered the middleware
    sqlite_db,       \* the tables of the SQLite file
    mysql_db,        \* the tables of the MySQL database
    mysql_before,    \* the MySQL tables when the command started
    migrate_options, \* --dry-run, and whether the file and the MySQL engine are there
    migrate_pc,      \* where handle is, or how it ended
    tables,          \* the tables handle has still to visit, in the order of sqlite_master
    migrated,        \* the tables migrate_table returned for
    statements,      \* the statements executed so far: database, kind and table
    reported,        \* per table, the row count a dry run wrote to stdout
    load_file,       \* the data rows of the TSV file, as csv.DictReader yields them
    load_options,    \* --batch-size, --clear, and whether the file exists
    load_pc,         \* where handle is, or how it ended
    next_row,        \* the position of the row the reader yields next
    batch,           \* the records collected since the last bulk_create
    total_count,     \* total_count of handle
    skipped_count,   \* skipped_count of handle
    bulk_create_calls,\* the record lists given to bulk_create, in call order
    cleared,         \* whether the existing expression rows were deleted
    advisor_db,      \* the row counts the quality endpoints read
    advisor_call,    \* the last call of a quality endpoint: its function and arguments
    advisor_response \* the data of the response of that call

builderVars == <<enhancers_all, call, matrix_data>>
coverageVars == <<enhancers_hiconf, coverage_call, tissue_stats>>
regionVars == <<genes, region_call, gene_region, region_response>>
combinedVars ==
    <<database, django_cache, stored_for, combined_call, combined_result, answered_for,
      calls_made>>
expressionVars ==
    <<_expression_cache, expression_file, expression_data_cache, pc, expr_args, loaded,
      expr_result, load_calls, assignments>>
queryVars == <<query_db, query_call, query_result>>
capVars == <<rows_matching, cap_call, rows_fetched, builder_records>>
middlewareVars ==
    <<db_reachable, api_cache, request, db_on_arrival, response, handler_invoked,
      select_1_ok, api_stored_for, entry_on_arrival>>
readOnlyVars ==
    <<settings, query_only, readonly_pc, pragma, pragmas_issued, handler_ran,
      rows_written, requests_seen>>
migrateVars ==
    <<sqlite_db, mysql_db, mysql_before, migrate_options, migrate_pc, tables,
      migrated, statements, reported>>
loadVars ==
    <<load_file, load_options, load_pc, next_row, batch, total_count, skipped_count,
      bulk_create_calls, cleared>>
advisorVars ==
    <<advisor_db, advisor_call, advisor_response>>
vars ==
    <<builderVars, coverageVars, regionVars, combinedVars, expressionVars,
      queryVars, capVars, middlewareVars, readOnlyVars, migrateVars, loadVars,
      advisorVars>>

\* the variables outside each component
notBuilderVars ==
    <<coverageVars, regionVars, combinedVars, expressionVars, queryVars, capVars,
      middlewareVars, readOnlyVars, migrateVars, loadVars, advisorVars>>
notCoverageVars ==
    <<builderVars, regionVars, combinedVars, expressionVars, queryVars, capVars,
      middlewareVars, readOnlyVars, migrateVars, loadVars, advisorVars>>
notRegionVars ==
    <<builderVars, coverageVars, combinedVars, expressionVars, queryVars, capVars,
      middlewareVars, readOnlyVars, migrateVars, loadVars, advisorVars>>
notCombinedVars ==
    <<builderVars, coverageVars, regionVars, expressionVars, queryVars, capVars,
      middlewareVars, readOnlyVars, migrateVars, loadVars, advisorVars>>
notExpressionVars ==
    <<builderVars, coverageVars, regionVars, combinedVars, queryVars, capVars,
      middlewareVars, readOnlyVars, migrateVars, loadVars, advisorVars>>
notQueryVars ==
    <<builderVars, coverageVars, regionVars, combinedVars, expressionVars, capVars,
      middlewareVars, readOnlyVars, migrateVars, loadVars, advisorVars>>
notCapVars ==
    <<builderVars, coverageVars, regionVars, combinedVars, expressionVars,
      queryVars, middlewareVars, readOnlyVars, migrateVars, loadVars, advisorVars>>
notMiddlewareVars ==
    <<builderVars, coverageVars, regionVars, combinedVars, expressionVars,
      queryVars, capVars, readOnlyVars, migrateVars, loadVars, advisorVars>>
notReadOnlyVars ==
    <<builderVars, coverageVars, regionVars, combinedVars, expressionVars,
      queryVars, capVars, middlewareVars, migrateVars, loadVars, advisorVars>>
notMigrateVars ==
    <<builderVars, coverageVars, regionVars, combinedVars, expressionVars,
      queryVars, capVars, middlewareVars, readOnlyVars, loadVars, advisorVars>>
notLoadVars ==
    <<builderVars, coverageVars, regionVars, combinedVars, expressionVars,
      queryVars, capVars, middlewareVars, readOnlyVars, migrateVars, advisorVars>>
notAdvisorVars ==
    <<builderVars, coverageVars, regionVars, combinedVars, expressionVars,
      queryVars, capVars, middlewareVars, readOnlyVars, migrateVars, loadVars>>

(***************************************************************************)
(* Bounds of the model.                                                    *)
(***************************************************************************)
MaxEnh == 2
MaxBins == 4
MaxGenes == 2
MaxFlankKb == 3

(***************************************************************************)
(* Python numbers.                                                         *)
(***************************************************************************)
\* Python None: a value of its own, equal to no number, string or dict
None == [none |-> TRUE]
NULL == "NULL"

Abs(x) == IF x < 0 THEN -x ELSE x

RECURSIVE GCD(_, _)
GCD(a, b) == IF b = 0 THEN a ELSE GCD(b, a % b)

\* the rational n/d (d # 0) in lowest terms with a positive denominator
Rat(n, d) ==
    LET s == IF d < 0 THEN -1 ELSE 1
        g == GCD(Abs(n), Abs(d))
    IN  <<(s * n) \div g, (s * d) \div g>>

IntRat(n) == <<n, 1>>
RatAdd(a, b) == Rat(a[1] * b[2] + b[1] * a[2], a[2] * b[2])
RatMul(a, b) == Rat(a[1] * b[1], a[2] * b[2])
RatDiv(a, b) == Rat(a[1] * b[2], a[2] * b[1])
RatLT(a, b) == a[1] * b[2] < b[1] * a[2]

Range(s) == {s[i] : i \in DOMAIN s}

\* max(row) of a non-empty row of numbers
RatMax(row) == CHOOSE x \in Range(row) : \A y \in Range(row) : ~RatLT(x, y)

Min(a, b) == IF a < b THEN a ELSE b
Max(a, b) == IF a < b THEN b ELSE a

\* an exception leaving a function
Raise(kind) == [exception |-> kind]
Raised(r) == "exception" \in DOMAIN r

(***************************************************************************)
(* SQL helpers.                                                            *)
(***************************************************************************)
Coalesce(v, d) == IF v = NULL THEN d ELSE v

\* NULL in a numeric column (score, pval, motif_p): a number no row holds, since
\* scores and p-values are not negative
NullNumber == -1
CoalesceNumber(v, d) == IF v = NullNumber THEN d ELSE v

\* ORDER BY e.start: insertion of a row into a list ordered by start
RECURSIVE InsertByStart(_, _)
InsertByStart(row, s) ==
    IF s = <<>> THEN <<row>>
    ELSE IF row.start < Head(s).start THEN <<row>> \o s
    ELSE <<Head(s)>> \o InsertByStart(row, Tail(s))

RECURSIVE OrderByStart(_)
OrderByStart(s) ==
    IF s = <<>> THEN <<>>
    ELSE InsertByStart(s[Len(s)], OrderByStart(SubSeq(s, 1, Len(s) - 1)))

Limit(s, n) == SubSeq(s, 1, Min(Len(s), n))

\* one row of the result set as the dict the functions build from it
EnhancerDict(row) ==
    [start |-> row.start, end |-> row.end, tissue |-> row.tissue,
     class |-> Coalesce(row.class, "unlabeled")]

\* a variant of the WHERE clause with closed bounds: a record that touches the
\* window counts
EnhancerRowMatchesClosed(row, species_id, chrom, start, end, tissue, enhancer_classes) ==
    /\ row.species_id = species_id
    /\ row.chrom = chrom
    /\ row.start <= end
    /\ row.end >= start
    /\ (tissue # "Other" =>
            (Coalesce(row.tissue, "Other") = tissue \/ tissue = "Other"))
    /\ (enhancer_classes # <<>> =>
            Coalesce(row.class, "unlabeled") \in Range(enhancer_classes))

\* the WHERE clause of get_enhancers_in_region
EnhancerRowMatches(row, species_id, chrom, start, end, tissue, enhancer_classes) ==
    /\ row.species_id = species_id
    /\ row.chrom = chrom
    /\ row.start < end
    /\ row.end > start
    /\ (tissue # "Other" =>
            (Coalesce(row.tissue, "Other") = tissue \/ tissue = "Other"))
    /\ (enhancer_classes # <<>> =>
            Coalesce(row.class, "unlabeled") \in Range(enhancer_classes))

EnhancerLimit == 1000

get_enhancers_in_region(table, species_id, chrom, start, end, tissue, enhancer_classes) ==
    LET Match(row) == EnhancerRowMatches(row, species_id, chrom, start, end,
                                         tissue, enhancer_classes)
        rows == Limit(OrderByStart(SelectSeq(table, Match)), EnhancerLimit)
    IN  [i \in 1..Len(rows) |-> EnhancerDict(rows[i])]

(***************************************************************************)
(* The conservation-matrix builder, optimized copy.                        *)
(***************************************************************************)
\* bin_edges[i] = start + i * bin_width, bin_width = (end - start) / nbins
BinEdgeOptimized(start, end, nbins, i) ==
    RatAdd(IntRat(start), RatMul(IntRat(i), Rat(end - start, nbins)))

\* bins of the optimized copy; Python's bins[i] is BinsOptimized[i + 1]
BinsOptimized(start, end, nbins) ==
    [i \in 1..nbins |->
        [bin |-> i,
         start |-> BinEdgeOptimized(start, end, nbins, i - 1),
         end |-> BinEdgeOptimized(start, end, nbins, i),
         center |-> RatDiv(RatAdd(BinEdgeOptimized(start, end, nbins, i - 1),
                                  BinEdgeOptimized(start, end, nbins, i)),
                           IntRat(2))]]

\* a variant of the overlap test with closed bounds: a record that touches a
\* bin boundary counts
OverlapsOptimizedClosed(enh, bin_start, bin_end) ==
    ~RatLT(IntRat(enh.end), bin_start) /\ ~RatLT(bin_end, IntRat(enh.start))

\* enh['end'] > bin_start and enh['start'] < bin_end
OverlapsOptimized(enh, bin_start, bin_end) ==
    RatLT(bin_start, IntRat(enh.end)) /\ RatLT(IntRat(enh.start), bin_end)

\* a variant of the count that counts distinct records
CountOptimizedDistinct(enhancers, class_name, bin_start, bin_end) ==
    Cardinality({enhancers[k] : k \in {k \in DOMAIN enhancers :
        /\ enhancers[k].class = class_name
        /\ OverlapsOptimized(enhancers[k], bin_start, bin_end)}})

\* sum(1 for enh in class_enhancers if ...)
CountOptimized(enhancers, class_name, bin_start, bin_end) ==
    Cardinality({k \in DOMAIN enhancers :
        /\ enhancers[k].class = class_name
        /\ OverlapsOptimized(enhancers[k], bin_start, bin_end)})

CountsOptimized(enhancers, start, end, enhancer_classes, nbins) ==
    [c \in 1..Len(enhancer_classes) |->
        [i \in 1..nbins |->
            CountOptimized(enhancers, enhancer_classes[c],
                           BinEdgeOptimized(start, end, nbins, i - 1),
                           BinEdgeOptimized(start, end, nbins, i))]]

RECURSIVE RatSum(_)
RatSum(row) == IF row = <<>> THEN IntRat(0) ELSE RatAdd(Head(row), RatSum(Tail(row)))

\* a variant of the normalization that divides a row by its total
NormalizeRowByTotal(row) ==
    LET total == RatSum(row)
    IN  [i \in 1..Len(row) |->
            IF RatLT(IntRat(0), total) THEN RatDiv(row[i], total) ELSE IntRat(0)]

\* a variant of the normalization that avoids the division by zero by adding 1
\* to the maximum
NormalizeRowSmoothed(row) ==
    LET max_val == IF row # <<>> THEN RatMax(row) ELSE IntRat(1)
    IN  [i \in 1..Len(row) |-> RatDiv(row[i], RatAdd(max_val, IntRat(1)))]

\* one row of the normalization step, on a row of numbers
NormalizeRow(row) ==
    LET max_val == IF row # <<>> THEN RatMax(row) ELSE IntRat(1)
    IN  [i \in 1..Len(row) |->
            IF RatLT(IntRat(0), max_val) THEN RatDiv(row[i], max_val) ELSE IntRat(0)]

NormalizeRows(matrix) == [c \in 1..Len(matrix) |-> NormalizeRow(matrix[c])]

\* a matrix of counts as a matrix of numbers
AsNumbers(matrix) ==
    [c \in 1..Len(matrix) |-> [i \in 1..Len(matrix[c]) |-> IntRat(matrix[c][i])]]

TssPosition(gene_data) == IF gene_data # None THEN gene_data.tss ELSE None

create_conservation_heatmap_optimized(enhancers, start, end, enhancer_classes, nbins, normalize_rows, gene_data) ==
    IF enhancers = <<>>
    THEN [bins |-> <<>>, classes |-> enhancer_classes, matrix |-> <<>>,
          region_start |-> start, region_end |-> end, nbins |-> nbins]
    ELSE IF nbins = 0 THEN Raise("ZeroDivisionError")
    ELSE LET counts == CountsOptimized(enhancers, start, end, enhancer_classes, nbins)
         IN  [bins |-> BinsOptimized(start, end, nbins),
              classes |-> enhancer_classes,
              matrix |-> IF normalize_rows THEN NormalizeRows(AsNumbers(counts))
                         ELSE counts,
              region_start |-> start, region_end |-> end, nbins |-> nbins,
              normalized |-> normalize_rows,
              tss_position |-> TssPosition(gene_data)]

(***************************************************************************)
(* The conservation-matrix builder, base copy.                             *)
(***************************************************************************)
BinsBase(start, end, nbins) ==
    [i \in 1..nbins |->
        LET bin_width == Rat(end - start, nbins)
            bin_start == RatAdd(IntRat(start), RatMul(IntRat(i - 1), bin_width))
            bin_end == RatAdd(IntRat(start), RatMul(IntRat(i), bin_width))
        IN  [bin |-> i, start |-> bin_start, end |-> bin_end,
             center |-> RatDiv(RatAdd(bin_start, bin_end), IntRat(2))]]

\* a variant of the base copy's test with closed bounds
OverlapsBaseClosed(enh, class_name, bin_data) ==
    /\ enh.class = class_name
    /\ ~RatLT(IntRat(enh.end), bin_data.start)
    /\ ~RatLT(bin_data.end, IntRat(enh.start))

OverlapsBase(enh, class_name, bin_data) ==
    /\ enh.class = class_name
    /\ RatLT(bin_data.start, IntRat(enh.end))
    /\ RatLT(IntRat(enh.start), bin_data.end)

CountsBase(enhancers, bins, enhancer_classes) ==
    [c \in 1..Len(enhancer_classes) |->
        [i \in 1..Len(bins) |->
            Cardinality({k \in DOMAIN enhancers :
                OverlapsBase(enhancers[k], enhancer_classes[c], bins[i])})]]

NormalizeRowBase(row) ==
    LET max_val == IF row # <<>> THEN RatMax(row) ELSE IntRat(1)
    IN  [i \in 1..Len(row) |->
            IF RatLT(IntRat(0), max_val) THEN RatDiv(row[i], max_val) ELSE IntRat(0)]

create_conservation_heatmap(table, species_id, chrom, start, end, tissue, enhancer_classes, nbins, normalize_rows, gene_data) ==
    LET enhancers == get_enhancers_in_region(table, species_id, chrom, start, end,
                                             tissue, enhancer_classes)
    IN  IF enhancers = <<>>
        THEN [bins |-> <<>>, classes |-> enhancer_classes, matrix |-> <<>>,
              region_start |-> start, region_end |-> end, nbins |-> nbins]
        ELSE IF nbins = 0 THEN Raise("ZeroDivisionError")
        ELSE LET bins == BinsBase(start, end, nbins)
                 counts == CountsBase(enhancers, bins, enhancer_classes)
             IN  [bins |-> bins,
                  classes |-> enhancer_classes,
                  matrix |-> IF normalize_rows
                             THEN [c \in 1..Len(counts) |->
                                      NormalizeRowBase(AsNumbers(counts)[c])]
                             ELSE counts,
                  region_start |-> start, region_end |-> end, nbins |-> nbins,
                  normalized |-> normalize_rows,
                  tss_position |-> TssPosition(gene_data)]

(***************************************************************************)
(* Inputs of the builder specification.                                    *)
(***************************************************************************)
Species == "human_hg38"
Chrom == "chr11"
Tissue == "Liver"

Intervals == {<<100, 300>>, <<100, 250>>, <<0, 1000>>, <<1000, 1200>>}
RowClasses == {"conserved", "gained"}

EnhancerRows ==
    {[species_id |-> Species, chrom |-> Chrom, start |-> iv[1], end |-> iv[2],
      tissue |-> Tissue, class |-> cl] : iv \in Intervals, cl \in RowClasses}

RECURSIVE SeqsUpTo(_, _)
SeqsUpTo(S, n) ==
    IF n = 0 THEN {<<>>}
    ELSE LET shorter == SeqsUpTo(S, n - 1)
         IN  shorter \cup {Append(s, x) : s \in shorter, x \in S}

Regions == {<<0, 1000>>, <<100, 500>>, <<500, 500>>, <<1000, 0>>}
ClassLists == {<<>>, <<"conserved">>, <<"conserved", "gained">>, <<"gained", "conserved">>}
NbinsValues == {-1, 0} \cup (1..MaxBins)
GeneDatas == {None, [tss |-> 500]}

NoCall == [fn |-> "none"]

\* the parts of the state a specification does not use
IdleBuilder == enhancers_all = <<>> /\ call = NoCall /\ matrix_data = None
IdleCoverage ==
    /\ enhancers_hiconf = <<>>
    /\ coverage_call = NoCall
    /\ tissue_stats = <<>>
IdleRegion ==
    /\ genes = {}
    /\ region_call = NoCall
    /\ gene_region = None
    /\ region_response = None

IdleCombined ==
    /\ database = None
    /\ django_cache = <<>>
    /\ stored_for = <<>>
    /\ combined_call = NoCall
    /\ combined_result = None
    /\ answered_for = None
    /\ calls_made = 0

IdleExpression ==
    /\ _expression_cache = None
    /\ expression_file = "missing"
    /\ expression_data_cache = None
    /\ pc = <<>>
    /\ expr_args = <<>>
    /\ loaded = <<>>
    /\ expr_result = <<>>
    /\ load_calls = 0
    /\ assignments = 0

IdleQuery == query_db = None /\ query_call = NoCall /\ query_result = None

IdleCap ==
    /\ rows_matching = <<>>
    /\ cap_call = NoCall
    /\ rows_fetched = 0
    /\ builder_records = 0

IdleMiddleware ==
    /\ db_reachable = TRUE
    /\ api_cache = <<>>
    /\ request = None
    /\ db_on_arrival = TRUE
    /\ response = None
    /\ handler_invoked = FALSE
    /\ select_1_ok = FALSE
    /\ api_stored_for = <<>>
    /\ entry_on_arrival = None

IdleReadOnly ==
    /\ settings = None
    /\ query_only = FALSE
    /\ readonly_pc = "idle"
    /\ pragma = "not issued"
    /\ pragmas_issued = 0
    /\ handler_ran = FALSE
    /\ rows_written = 0
    /\ requests_seen = 0

IdleMigrate ==
    /\ sqlite_db = <<>>
    /\ mysql_db = <<>>
    /\ mysql_before = <<>>
    /\ migrate_options = None
    /\ migrate_pc = "start"
    /\ tables = <<>>
    /\ migrated = {}
    /\ statements = {}
    /\ reported = <<>>

IdleLoad ==
    /\ load_file = <<>>
    /\ load_options = None
    /\ load_pc = "start"
    /\ next_row = 1
    /\ batch = <<>>
    /\ total_count = 0
    /\ skipped_count = 0
    /\ bulk_create_calls = <<>>
    /\ cleared = FALSE

IdleAdvisor ==
    /\ advisor_db = None
    /\ advisor_call = NoCall
    /\ advisor_response = None

\* every component but the named one is idle
OthersIdle(component) ==
    /\ IF component = "builder" THEN TRUE ELSE IdleBuilder
    /\ IF component = "coverage" THEN TRUE ELSE IdleCoverage
    /\ IF component = "region" THEN TRUE ELSE IdleRegion
    /\ IF component = "combined" THEN TRUE ELSE IdleCombined
    /\ IF component = "expression" THEN TRUE ELSE IdleExpression
    /\ IF component = "query" THEN TRUE ELSE IdleQuery
    /\ IF component = "cap" THEN TRUE ELSE IdleCap
    /\ IF component = "middleware" THEN TRUE ELSE IdleMiddleware
    /\ IF component = "readOnly" THEN TRUE ELSE IdleReadOnly
    /\ IF component = "migrate" THEN TRUE ELSE IdleMigrate
    /\ IF component = "load" THEN TRUE ELSE IdleLoad
    /\ IF component = "advisor" THEN TRUE ELSE IdleAdvisor

\* The builder is a function of its arguments alone, so a behaviour of the builder
\* specification is one call of one copy on inputs drawn at the start.
\* every row of the table as a record list, for a direct call of the optimized copy
AllEnhancers == [i \in 1..Len(enhancers_all) |-> EnhancerDict(enhancers_all[i])]

InitBuilder ==
    /\ enhancers_all \in SeqsUpTo(EnhancerRows, MaxEnh)
    /\ call = NoCall
    /\ matrix_data = None
    /\ OthersIdle("builder")

CallOptimized ==
    \E region \in Regions, enhancer_classes \in ClassLists, nbins \in NbinsValues,
       normalize_rows \in BOOLEAN, gene_data \in GeneDatas :
        /\ call = NoCall
        /\ call' = [fn |-> "create_conservation_heatmap_optimized",
                    enhancers |-> AllEnhancers,
                    start |-> region[1], end |-> region[2],
                    enhancer_classes |-> enhancer_classes, nbins |-> nbins,
                    normalize_rows |-> normalize_rows, gene_data |-> gene_data]
        /\ matrix_data' = create_conservation_heatmap_optimized(
                              AllEnhancers, region[1], region[2], enhancer_classes,
                              nbins, normalize_rows, gene_data)
        /\ UNCHANGED <<enhancers_all, notBuilderVars>>

CallBase ==
    \E region \in Regions, enhancer_classes \in ClassLists, nbins \in NbinsValues,
       normalize_rows \in BOOLEAN, gene_data \in GeneDatas :
        /\ call = NoCall
        /\ call' = [fn |-> "create_conservation_heatmap",
                    enhancers |-> get_enhancers_in_region(enhancers_all, Species, Chrom,
                                      region[1], region[2], Tissue, enhancer_classes),
                    start |-> region[1], end |-> region[2],
                    enhancer_classes |-> enhancer_classes, nbins |-> nbins,
                    normalize_rows |-> normalize_rows, gene_data |-> gene_data]
        /\ matrix_data' = create_conservation_heatmap(
                              enhancers_all, Species, Chrom, region[1], region[2], Tissue,
                              enhancer_classes, nbins, normalize_rows, gene_data)
        /\ UNCHANGED <<enhancers_all, notBuilderVars>>

NextBuilder == CallOptimized \/ CallBase

SpecBuilder == InitBuilder /\ [][NextBuilder]_vars

(***************************************************************************)
(* The Quality Advisor: get_tissue_coverage_stats, in its two copies       *)
(* (enhanced_utils_functions.py and enhanced_queries.py).  The view        *)
(* enhancers_hiconf is held as the number of its rows per                  *)
(* <<species_id, tissue>>, which is all that the row count ... GROUP BY tissue  *)
(* reads of it.                                                            *)
(***************************************************************************)
SpeciesIds == {"human_hg38", "mouse_mm39"}
TissueNames == {"Brain", "Liver"}
RowCounts == {0, 1, 23, 99, 100, 999, 1000, 9999, 10000, 10001}

\* a variant of the CASE whose thresholds are inclusive
CoverageLevelInclusive(count) ==
    IF count <= 100 THEN "critical"
    ELSE IF count <= 1000 THEN "low"
    ELSE IF count <= 10000 THEN "medium"
    ELSE "good"

\* CASE WHEN the row count < 100 THEN 'critical' ... END (enhanced_utils_functions.py)
CoverageLevel(count) ==
    IF count < 100 THEN "critical"
    ELSE IF count < 1000 THEN "low"
    ELSE IF count < 10000 THEN "medium"
    ELSE "good"

\* the same CASE in the copy of enhanced_queries.py
CoverageLevelQueries(count) ==
    IF count < 100 THEN "critical"
    ELSE IF count < 1000 THEN "low"
    ELSE IF count < 10000 THEN "medium"
    ELSE "good"

\* WHERE species_id = %s GROUP BY tissue: the tissues with at least one row
TissueGroups(view, species_id) == {t \in TissueNames : view[<<species_id, t>>] > 0}

\* SELECT tissue, the row count, CASE ... (enhanced_utils_functions.py)
StatsRows(view, species_id) ==
    {[tissue |-> t,
      enhancer_count |-> view[<<species_id, t>>],
      coverage_level |-> CoverageLevel(view[<<species_id, t>>])] :
        t \in TissueGroups(view, species_id)}

\* the same SELECT in the copy of enhanced_queries.py
StatsRowsQueries(view, species_id) ==
    {[tissue |-> t,
      enhancer_count |-> view[<<species_id, t>>],
      coverage_level |-> CoverageLevelQueries(view[<<species_id, t>>])] :
        t \in TissueGroups(view, species_id)}

\* ORDER BY enhancer_count DESC; the order of equal counts is the database's
\* choice, so a statement has a set of possible result lists
OrderedByCountDesc(rows) ==
    {list \in [1..Cardinality(rows) -> rows] :
        /\ Range(list) = rows
        /\ \A i \in 1..(Len(list) - 1) :
               list[i].enhancer_count >= list[i + 1].enhancer_count}

InitCoverage ==
    /\ enhancers_hiconf \in [SpeciesIds \X TissueNames -> RowCounts]
    /\ coverage_call = NoCall
    /\ tissue_stats = <<>>
    /\ OthersIdle("coverage")

get_tissue_coverage_stats ==
    \E species_id \in SpeciesIds :
        /\ coverage_call' = [fn |-> "enhanced_utils_functions", species_id |-> species_id]
        /\ tissue_stats' \in OrderedByCountDesc(StatsRows(enhancers_hiconf, species_id))
        /\ UNCHANGED <<enhancers_hiconf, notCoverageVars>>

get_tissue_coverage_stats_queries ==
    \E species_id \in SpeciesIds :
        /\ coverage_call' = [fn |-> "enhanced_queries", species_id |-> species_id]
        /\ tissue_stats' \in OrderedByCountDesc(StatsRowsQueries(enhancers_hiconf, species_id))
        /\ UNCHANGED <<enhancers_hiconf, notCoverageVars>>

NextCoverage == get_tissue_coverage_stats \/ get_tissue_coverage_stats_queries

SpecCoverage == InitCoverage /\ [][NextCoverage]_vars

(***************************************************************************)
(* The Region Resolver: get_gene_region.                                   *)
(***************************************************************************)
\* str.upper() and SQL UPPER() on the gene symbols of the model
Upper(s) ==
    CASE s = "bdnf" -> "BDNF"
      [] s = "Bdnf" -> "BDNF"
      [] s = "alb" -> "ALB"
      [] OTHER -> s

GeneChrom == "chr11"
GeneSymbols == {"BDNF", "Bdnf", "ALB"}
GeneStarts == {0, 500, 2500}

\* the gene's length plays no part in the window
GeneRows ==
    {[gene_id |-> <<sym, sp, st>>, symbol |-> sym, species_id |-> sp,
      chrom |-> GeneChrom, start |-> st, end |-> st + 1200] :
        sym \in GeneSymbols, sp \in SpeciesIds, st \in GeneStarts}

SymbolQueries == {"bdnf", "BDNF", "alb", "TTN"}
FlankValues == {-1, 0} \cup (1..MaxFlankKb)

\* a variant of the lookup that does not restrict the species
GeneMatchesAnySpecies(table, gene_symbol, species_id) ==
    {g \in table : Upper(g.symbol) = Upper(gene_symbol)}

\* WHERE UPPER(symbol) = %s AND species_id = %s, with gene_symbol.upper()
GeneMatches(table, gene_symbol, species_id) ==
    {g \in table : Upper(g.symbol) = Upper(gene_symbol) /\ g.species_id = species_id}

\* a variant of the window start without the clamp at 0
WindowStartUnclamped(tss, half_window) == tss - half_window

\* 'start': max(0, tss - half_window)
WindowStart(tss, half_window) == Max(0, tss - half_window)

\* 'end': tss + half_window
WindowEnd(tss, half_window) == tss + half_window

\* the dict built from the fetched row
GeneRegion(row, tss_kb) ==
    LET tss == row.start
        half_window == tss_kb * 1000
    IN  [gene_id |-> row.gene_id, symbol |-> row.symbol, chrom |-> row.chrom,
         start |-> WindowStart(tss, half_window),
         end |-> WindowEnd(tss, half_window),
         tss |-> tss, gene_start |-> row.start, gene_end |-> row.end]

InitRegion ==
    /\ genes \in {t \in SUBSET GeneRows : Cardinality(t) <= MaxGenes}
    /\ region_call = NoCall
    /\ gene_region = None
    /\ region_response = None
    /\ OthersIdle("region")

\* LIMIT 1 without ORDER BY: which of several matching rows is fetched is the
\* database's choice
get_gene_region ==
    \E gene_symbol \in SymbolQueries, species_id \in SpeciesIds, tss_kb \in FlankValues :
        /\ region_call' = [fn |-> "get_gene_region", gene_symbol |-> gene_symbol,
                           species_id |-> species_id, tss_kb |-> tss_kb]
        /\ IF GeneMatches(genes, gene_symbol, species_id) = {}
           THEN gene_region' = None
           ELSE \E row \in GeneMatches(genes, gene_symbol, species_id) :
                    gene_region' = GeneRegion(row, tss_kb)
        /\ region_response' = None
        /\ UNCHANGED <<genes, notRegionVars>>

\* the endpoints of views.py that resolve a gene first
GeneEndpoints ==
    {"combined_gene_data", "gene_region_data", "conservation_matrix",
     "genome_tracks_plot", "ctcf_analysis"}

\* Response({'error': 'Gene not found'}, status=status.HTTP_404_NOT_FOUND)
GeneNotFound == [status |-> 404, data |-> [error |-> "Gene not found"]]

\* gene_symbol as the endpoint hands it to get_gene_region: ctcf_analysis passes
\* data.get('gene') as it came, the others pass its .upper()
EndpointSymbol(endpoint, gene) == IF endpoint = "ctcf_analysis" THEN gene ELSE Upper(gene)

\* The first step of an endpoint: gene_data = get_gene_region(...); if not gene_data
\* the endpoint returns 404, else it goes on with gene_data and has no response yet.
\* The table is read only and the lookup keeps nothing, so a behaviour follows the
\* lookup of one request.
resolve_gene ==
    \E endpoint \in GeneEndpoints, gene \in SymbolQueries, species_id \in SpeciesIds,
       tss_kb \in FlankValues :
        LET gene_symbol == EndpointSymbol(endpoint, gene)
        IN  /\ region_call = NoCall
            /\ region_call' = [fn |-> endpoint, gene_symbol |-> gene,
                               species_id |-> species_id, tss_kb |-> tss_kb]
            /\ IF GeneMatches(genes, gene_symbol, species_id) = {}
               THEN gene_region' = None
               ELSE \E row \in GeneMatches(genes, gene_symbol, species_id) :
                        gene_region' = GeneRegion(row, tss_kb)
            /\ region_response' = IF gene_region' = None THEN GeneNotFound ELSE None
            /\ UNCHANGED <<genes, notRegionVars>>

NextRegion == get_gene_region \/ resolve_gene

SpecRegion == InitRegion /\ [][NextRegion]_vars

(***************************************************************************)
(* The optimized interval queries of utils.py.  A table is a sequence of   *)
(* rows; an ORDER BY leaves the order of rows it does not distinguish to   *)
(* the database, so a query has a set of possible result lists.            *)
(***************************************************************************)
\* every arrangement of the rows of a result set
Arrangements(rows) ==
    {[i \in 1..Len(rows) |-> rows[p[i]]] : p \in Permutations(1..Len(rows))}

\* e LEFT JOIN enhancer_class ec ON e.enh_id = ec.enh_id
LeftJoinClass(e, enhancer_class) ==
    LET classes == {ec.class : ec \in {c \in enhancer_class : c.enh_id = e.enh_id}}
        Joined(cl) == [f \in DOMAIN e \cup {"class"} |-> IF f = "class" THEN cl ELSE e[f]]
    IN  IF classes = {} THEN {Joined(NULL)} ELSE {Joined(cl) : cl \in classes}

\* ORDER BY COALESCE(e.score, 0) DESC, e.start
OrderedByScoreDescStart(list) ==
    \A i \in 1..(Len(list) - 1) :
        \/ CoalesceNumber(list[i].score, 0) > CoalesceNumber(list[i + 1].score, 0)
        \/ /\ CoalesceNumber(list[i].score, 0) = CoalesceNumber(list[i + 1].score, 0)
           /\ list[i].start <= list[i + 1].start

\* dict(zip(columns, row)) of the optimized enhancer query
EnhancerDictOptimized(row) ==
    [enh_id |-> row.enh_id, chrom |-> row.chrom, start |-> row.start, end |-> row.end,
     tissue |-> row.tissue, score |-> row.score, source |-> row.source,
     class |-> Coalesce(row.class, "unlabeled")]

EnhancerLimitOptimized == 5000

\* the result lists get_enhancers_in_region_optimized can return; its WHERE clause is
\* that of get_enhancers_in_region
get_enhancers_in_region_optimized(table, species_id, chrom, start, end, tissue, enhancer_classes) ==
    LET Match(row) == EnhancerRowMatches(row, species_id, chrom, start, end,
                                         tissue, enhancer_classes)
        selected == SelectSeq(table, Match)
    IN  {[i \in 1..Min(Len(rows), EnhancerLimitOptimized) |-> EnhancerDictOptimized(rows[i])] :
            rows \in {a \in Arrangements(selected) : OrderedByScoreDescStart(a)}}

\* p-values are held in units of 1e-9; the 1e99 that stands in for a NULL p-value is
\* held as a number above every p-value
PvalMissing == 2000000000

\* ORDER BY COALESCE(s.pval, 1e99) ASC, s.rsid ASC; an rsid is held as its number
OrderedByPvalRsid(list) ==
    \A i \in 1..(Len(list) - 1) :
        \/ CoalesceNumber(list[i].pval, PvalMissing) < CoalesceNumber(list[i + 1].pval, PvalMissing)
        \/ /\ CoalesceNumber(list[i].pval, PvalMissing) = CoalesceNumber(list[i + 1].pval, PvalMissing)
           /\ list[i].rsid <= list[i + 1].rsid

GwasLimitOptimized == 50

\* the gwas_snps table is held joined with snp_to_enhancer, enhancers_all and
\* gene_to_enhancer: one row per SNP and linked gene
get_gwas_snps_in_region_optimized(table, gene_id, chrom, start, end) ==
    LET Match(row) == /\ row.gene_id = gene_id
                      /\ row.chrom = chrom
                      /\ row.pos >= start
                      /\ row.pos <= end
        selected == SelectSeq(table, Match)
    IN  {[i \in 1..Min(Len(rows), GwasLimitOptimized) |->
              [snp_id |-> rows[i].snp_id, rsid |-> rows[i].rsid, chrom |-> rows[i].chrom,
               pos |-> rows[i].pos, trait |-> rows[i].trait, pval |-> rows[i].pval,
               category |-> rows[i].category]] :
            rows \in {a \in Arrangements(selected) : OrderedByPvalRsid(a)}}

\* ORDER BY COALESCE(score, 0) DESC
OrderedByScoreDesc(list) ==
    \A i \in 1..(Len(list) - 1) :
        CoalesceNumber(list[i].score, 0) >= CoalesceNumber(list[i + 1].score, 0)

CtcfLimitOptimized == 200

get_ctcf_sites_in_region_optimized(table, species_id, chrom, start, end) ==
    LET Match(row) == /\ row.species_id = species_id
                      /\ row.chrom = chrom
                      /\ row.start < end
                      /\ row.end > start
        selected == SelectSeq(table, Match)
    IN  {[i \in 1..Min(Len(rows), CtcfLimitOptimized) |->
              [site_id |-> rows[i].site_id, chrom |-> rows[i].chrom,
               start |-> rows[i].start, end |-> rows[i].end, score |-> rows[i].score,
               motif_p |-> rows[i].motif_p, cons_class |-> Coalesce(rows[i].cons_class, "other")]] :
            rows \in {a \in Arrangements(selected) : OrderedByScoreDesc(a)}}

(***************************************************************************)
(* get_combined_region_data and its result cache (django.core.cache).      *)
(***************************************************************************)
\* str() of a bool in an f-string
StrBool(b) == IF b THEN "True" ELSE "False"

\* the class names in the order of Python's string comparison
ClassOrder == <<"conserved", "gained", "lost", "unlabeled">>
ClassRank(c) == CHOOSE i \in DOMAIN ClassOrder : ClassOrder[i] = c

RECURSIVE InsertSorted(_, _)
InsertSorted(c, s) ==
    IF s = <<>> THEN <<c>>
    ELSE IF ClassRank(c) < ClassRank(Head(s)) THEN <<c>> \o s
    ELSE <<Head(s)>> \o InsertSorted(c, Tail(s))

\* sorted(enhancer_classes)
RECURSIVE Sorted(_)
Sorted(s) == IF s = <<>> THEN <<>> ELSE InsertSorted(Head(s), Sorted(Tail(s)))

\* sep.join(s)
RECURSIVE Join(_, _)
Join(sep, s) ==
    IF s = <<>> THEN ""
    ELSE IF Len(s) = 1 THEN s[1]
    ELSE s[1] \o sep \o Join(sep, Tail(s))

\* tss_kb = (gene_data['end'] - gene_data['start']) // 2000
KeyTssKb(gene_data) == (gene_data.end - gene_data.start) \div 2000

\* '-'.join(sorted(enhancer_classes))
KeyClasses(enhancer_classes) == Join("-", Sorted(enhancer_classes))

\* the f-string cache_key of the arguments a
cache_key(a) ==
    "gene_data_" \o a.gene_data.gene_id \o "_" \o a.species_id \o "_" \o a.tissue
        \o "_" \o ToString(KeyTssKb(a.gene_data)) \o "_" \o KeyClasses(a.enhancer_classes)
        \o "_" \o ToString(a.nbins) \o "_" \o StrBool(a.normalize_rows)
        \o "_" \o StrBool(a.mark_tss) \o "_" \o StrBool(a.stack_tracks)
        \o "_" \o StrBool(a.show_gene) \o "_" \o StrBool(a.show_snps)
        \o "_" \o StrBool(a.log_expression)

\* hashlib.md5(cache_key.encode()).hexdigest(), taken as injective: the digest of a
\* string is held as the string under a tag
Md5Hexdigest(s) == <<"md5", s>>

\* get_ucsc_url: the URL is held as the values it is formatted from
UcscDb(species_id) ==
    CASE species_id = "human_hg38" -> "hg38"
      [] species_id = "mouse_mm39" -> "mm39"
      [] OTHER -> NULL

get_ucsc_url(species_id, chrom, start, end) ==
    IF UcscDb(species_id) = NULL THEN None
    ELSE [db |-> UcscDb(species_id), chrom |-> chrom, start |-> start, end |-> end]

TrackEnhancerLimit == 200
TrackSnpLimit == 50

\* create_genome_tracks_plot_optimized: the figure is held as the list of its shapes
\* (without colours and heights) and the x range
create_genome_tracks_plot_optimized(gene_data, enhancers, snps, stack_tracks, show_gene, show_snps) ==
    LET InRegion(enh) == enh.end > gene_data.start /\ enh.start < gene_data.end
        region_enhancers == Limit(SelectSeq(enhancers, InRegion), TrackEnhancerLimit)
        enhancer_shapes ==
            IF stack_tracks
            THEN [i \in 1..Len(region_enhancers) |->
                     [type |-> "rect", class |-> region_enhancers[i].class,
                      x0 |-> Max(region_enhancers[i].start, gene_data.start),
                      x1 |-> Min(region_enhancers[i].end, gene_data.end)]]
            ELSE <<>>
        gene_shapes ==
            IF show_gene
            THEN <<[type |-> "rect", class |-> "gene",
                    x0 |-> Max(gene_data.gene_start, gene_data.start),
                    x1 |-> Min(gene_data.gene_end, gene_data.end)]>>
            ELSE <<>>
        tss_shapes == <<[type |-> "line", class |-> "tss",
                         x0 |-> gene_data.tss, x1 |-> gene_data.tss]>>
        shown_snps == Limit(snps, TrackSnpLimit)
        snp_shapes ==
            IF show_snps /\ snps # <<>>
            THEN [i \in 1..Len(shown_snps) |->
                     [type |-> "line", class |-> "snp",
                      x0 |-> shown_snps[i].pos, x1 |-> shown_snps[i].pos]]
            ELSE <<>>
    IN  [plot_data |-> [shapes |-> enhancer_shapes \o gene_shapes \o tss_shapes \o snp_shapes,
                        range |-> <<gene_data.start, gene_data.end>>,
                        title |-> gene_data.symbol],
         enhancer_count |-> Len(enhancers),
         snp_count |-> Len(snps)]

\* the tissues the expression plot shows, and the tissue names of the expression
\* table that contain each of them when both are put in lower case
\* a variant of the tissue list in another order
tissues_in_reverse == <<"Liver", "Heart", "Brain">>

tissues_of_interest == <<"Brain", "Heart", "Liver">>
TissueNamesContaining(target_tissue) ==
    CASE target_tissue = "Brain" -> {"Brain", "brain_cortex"}
      [] target_tissue = "Heart" -> {"Heart"}
      [] target_tissue = "Liver" -> {"Liver", "fetal liver"}

\* the body of get_expression_data_cached after the table is there: table maps an
\* upper-case symbol to its list of {tissue, tpm}; a tpm of the result is held as
\* the number it is, or under log_scale as the number whose log10 it is
ExpressionData(table, gene_symbol, log_scale) ==
    LET gene_upper == Upper(gene_symbol)
        all_expr_data == IF gene_upper \in DOMAIN table THEN table[gene_upper] ELSE <<>>
        Entry(target_tissue) ==
            LET Matching(item) == item.tissue \in TissueNamesContaining(target_tissue)
                matching == SelectSeq(all_expr_data, Matching)
                matching_values == [i \in 1..Len(matching) |-> matching[i].tpm]
                mean_tpm == IF matching_values # <<>>
                            THEN RatDiv(RatSum(matching_values), IntRat(Len(matching_values)))
                            ELSE IntRat(0)
            IN  [symbol |-> gene_symbol, tissue |-> target_tissue,
                 tpm |-> [log10 |-> log_scale,
                          of |-> IF log_scale THEN RatAdd(mean_tpm, IntRat(1)) ELSE mean_tpm]]
        expr_data == [k \in 1..Len(tissues_of_interest) |-> Entry(tissues_of_interest[k])]
    IN  [expression_data |-> expr_data,
         plot_data |-> [bars |-> expr_data, symbol |-> gene_symbol, log_scale |-> log_scale]]

\* cache.get(key): the entry, or None when there is none or it has expired
CacheGet(c, key) == IF key \in DOMAIN c THEN c[key] ELSE None

\* cache.set(key, value, timeout)
CacheSet(c, key, value) == [k \in DOMAIN c \cup {key} |-> IF k = key THEN value ELSE c[k]]

\* an entry leaves the cache when its timeout has passed
CacheExpire(c, key) == [k \in DOMAIN c \ {key} |-> c[k]]

\* the results get_combined_region_data can compute for the arguments a when the cache
\* has no entry; an exception of the builder is the builder's and ends the call
ComputeCombined(db, a) ==
    LET g == a.gene_data
    IN  {LET region_data == [gene |-> g, enhancers |-> enhancers, gwas_snps |-> gwas_snps,
                             ctcf_sites |-> ctcf_sites,
                             ucsc_url |-> get_ucsc_url(a.species_id, g.chrom, g.start, g.end)]
             matrix == create_conservation_heatmap_optimized(enhancers, g.start, g.end,
                           a.enhancer_classes, a.nbins, a.normalize_rows, g)
         IN  IF Raised(matrix) THEN matrix
             ELSE [region_data |-> region_data,
                   matrix_data |-> matrix,
                   tracks_data |-> create_genome_tracks_plot_optimized(g, enhancers, gwas_snps,
                                       a.stack_tracks, a.show_gene, a.show_snps),
                   expr_data |-> ExpressionData(db.expression, g.symbol, a.log_expression)] :
            enhancers \in get_enhancers_in_region_optimized(db.enhancers_all, a.species_id,
                              g.chrom, g.start, g.end, a.tissue, a.enhancer_classes),
            gwas_snps \in get_gwas_snps_in_region_optimized(db.gwas_snps, g.gene_id,
                              g.chrom, g.start, g.end),
            ctcf_sites \in get_ctcf_sites_in_region_optimized(db.ctcf_sites, a.species_id,
                              g.chrom, g.start, g.end)}

MaxCalls == 2

\* the rows of the tables behind get_combined_region_data
CombinedGenes ==
    {[gene_id |-> "ENSG1", symbol |-> "BDNF", species_id |-> "human_hg38",
      chrom |-> GeneChrom, start |-> 500, end |-> 1700],
     [gene_id |-> "ENSG2", symbol |-> "ALB", species_id |-> "human_hg38",
      chrom |-> GeneChrom, start |-> 2500, end |-> 3700],
     [gene_id |-> "ENSMUSG1", symbol |-> "Bdnf", species_id |-> "mouse_mm39",
      chrom |-> GeneChrom, start |-> 500, end |-> 1700]}

CombinedEnhancers ==
    <<[enh_id |-> 1, species_id |-> "human_hg38", chrom |-> GeneChrom, start |-> 100,
       end |-> 300, tissue |-> "Liver", score |-> 1, source |-> "ENCODE",
       class |-> "conserved"],
      [enh_id |-> 2, species_id |-> "human_hg38", chrom |-> GeneChrom, start |-> 1000,
       end |-> 1200, tissue |-> "Liver", score |-> NullNumber, source |-> "ENCODE",
       class |-> "gained"],
      [enh_id |-> 3, species_id |-> "human_hg38", chrom |-> GeneChrom, start |-> 2600,
       end |-> 3400, tissue |-> NULL, score |-> 1, source |-> "ENCODE",
       class |-> "gained"]>>

CombinedSnps ==
    <<[snp_id |-> 1, rsid |-> 7, chrom |-> GeneChrom, pos |-> 700, trait |-> "BMI",
       pval |-> 5, category |-> "metabolic", gene_id |-> "ENSG1"]>>

CombinedCtcf ==
    <<[site_id |-> 1, species_id |-> "human_hg38", chrom |-> GeneChrom, start |-> 400,
       end |-> 420, score |-> NullNumber, motif_p |-> NullNumber, cons_class |-> NULL]>>

\* the expression file is absent: load_expression_cache has given the empty table
CombinedDatabases ==
    {[genes |-> CombinedGenes, enhancers_all |-> enh, gwas_snps |-> CombinedSnps,
      ctcf_sites |-> CombinedCtcf, expression |-> <<>>] :
        enh \in {<<>>, CombinedEnhancers}}

\* the call the endpoint makes when the client names only the gene and the flank
BaseCall ==
    [gene_data |-> GeneRegion(CHOOSE g \in CombinedGenes : g.gene_id = "ENSG1", 2),
     species_id |-> "human_hg38", tissue |-> "Liver",
     enhancer_classes |-> <<"conserved", "gained">>, nbins |-> 2,
     normalize_rows |-> FALSE, mark_tss |-> TRUE, stack_tracks |-> TRUE,
     show_gene |-> TRUE, show_snps |-> TRUE, log_expression |-> FALSE]

\* the calls of the model: the base call and the calls that differ from it in the
\* gene with its species and flank, or in one other argument
CombinedCalls ==
    {[BaseCall EXCEPT !.gene_data = GeneRegion(g, tss_kb), !.species_id = g.species_id] :
         g \in CombinedGenes, tss_kb \in 1..MaxFlankKb}
    \cup {[BaseCall EXCEPT !.tissue = "Brain"]}
    \cup {[BaseCall EXCEPT !.enhancer_classes = cl] :
             cl \in {<<"gained", "conserved">>, <<"conserved">>}}
    \cup {[BaseCall EXCEPT !.nbins = n] : n \in {0, 4}}
    \cup {[BaseCall EXCEPT !.normalize_rows = TRUE], [BaseCall EXCEPT !.mark_tss = FALSE],
          [BaseCall EXCEPT !.stack_tracks = FALSE], [BaseCall EXCEPT !.show_gene = FALSE],
          [BaseCall EXCEPT !.show_snps = FALSE], [BaseCall EXCEPT !.log_expression = TRUE]}

InitCombined ==
    /\ database \in CombinedDatabases
    /\ django_cache = <<>>
    /\ stored_for = <<>>
    /\ combined_call = NoCall
    /\ combined_result = None
    /\ answered_for = None
    /\ calls_made = 0
    /\ OthersIdle("combined")

\* stored_for and answered_for record, for each cache entry and for the last result,
\* the arguments of the call that computed it
get_combined_region_data ==
    \E a \in CombinedCalls :
        LET cache_key_hash == Md5Hexdigest(cache_key(a))
            cached_result == CacheGet(django_cache, cache_key_hash)
        IN  /\ calls_made < MaxCalls
            /\ calls_made' = calls_made + 1
            /\ combined_call' = a
            /\ IF cached_result # None
               THEN /\ combined_result' = cached_result
                    /\ answered_for' = stored_for[cache_key_hash]
                    /\ UNCHANGED <<django_cache, stored_for>>
               ELSE \E result \in ComputeCombined(database, a) :
                        /\ combined_result' = result
                        /\ answered_for' = a
                        /\ IF Raised(result)
                           THEN UNCHANGED <<django_cache, stored_for>>
                           ELSE /\ django_cache' = CacheSet(django_cache, cache_key_hash, result)
                                /\ stored_for' = CacheSet(stored_for, cache_key_hash, a)
            /\ UNCHANGED <<database, notCombinedVars>>

\* the 300 seconds of an entry have passed
combined_cache_expire ==
    \E key \in DOMAIN django_cache :
        /\ django_cache' = CacheExpire(django_cache, key)
        /\ stored_for' = CacheExpire(stored_for, key)
        /\ UNCHANGED <<database, combined_call, combined_result, answered_for,
                       calls_made, notCombinedVars>>

NextCombined == get_combined_region_data \/ combined_cache_expire

SpecCombined == InitCombined /\ [][NextCombined]_vars

(***************************************************************************)
(* The Expression Cache: get_expression_data_cached and                    *)
(* load_expression_cache, called by the request threads of one process.    *)
(* A thread can be suspended between the test of _expression_cache, the    *)
(* call of load_expression_cache and the assignment of its result.         *)
(***************************************************************************)
MaxThreads == 2
Threads == 1..MaxThreads

\* the table load_expression_cache builds from the file of the model
ExpressionTable ==
    ("BDNF" :> <<[symbol |-> "BDNF", tissue |-> "Brain", tpm |-> IntRat(4)],
                 [symbol |-> "BDNF", tissue |-> "brain_cortex", tpm |-> IntRat(1)],
                 [symbol |-> "BDNF", tissue |-> "Liver", tpm |-> IntRat(3)]>>)

\* expression_cache = {}
EmptyTable == <<>>

ExprSymbols == {"bdnf", "TTN"}

InitExpression ==
    /\ _expression_cache = None
    /\ expression_file \in {"missing", "present"}
    /\ expression_data_cache = None
    /\ pc = [t \in Threads |-> "idle"]
    /\ expr_args = [t \in Threads |-> None]
    /\ loaded = [t \in Threads |-> None]
    /\ expr_result = [t \in Threads |-> None]
    /\ load_calls = 0
    /\ assignments = 0
    /\ OthersIdle("expression")

\* a request calls get_expression_data_cached: if _expression_cache is None
expression_check(t) ==
    \E gene_symbol \in ExprSymbols, log_scale \in BOOLEAN :
        /\ pc[t] = "idle"
        /\ expr_args' = [expr_args EXCEPT ![t] =
                             [gene_symbol |-> gene_symbol, log_scale |-> log_scale]]
        /\ pc' = [pc EXCEPT ![t] = IF _expression_cache = None THEN "load" ELSE "read"]
        /\ UNCHANGED <<_expression_cache, expression_file, expression_data_cache, loaded,
                       expr_result, load_calls, assignments, notExpressionVars>>

\* what reading the file gives: the table, or {} after the exception of a missing
\* file
ReadExpressionFile(file) == IF file = "present" THEN ExpressionTable ELSE EmptyTable

\* load_expression_cache(): a cached table that is not empty is returned as it is,
\* else the file is read and the table is put into the django cache
load_expression_cache(t) ==
    /\ pc[t] = "load"
    /\ load_calls' = load_calls + 1
    /\ IF expression_data_cache # None /\ expression_data_cache # EmptyTable
       THEN /\ loaded' = [loaded EXCEPT ![t] = expression_data_cache]
            /\ UNCHANGED expression_data_cache
       ELSE /\ loaded' = [loaded EXCEPT ![t] = ReadExpressionFile(expression_file)]
            /\ expression_data_cache' = ReadExpressionFile(expression_file)
    /\ pc' = [pc EXCEPT ![t] = "assign"]
    /\ UNCHANGED <<_expression_cache, expression_file, expr_args, expr_result,
                   assignments, notExpressionVars>>

\* _expression_cache = load_expression_cache()
expression_assign(t) ==
    /\ pc[t] = "assign"
    /\ _expression_cache' = loaded[t]
    /\ assignments' = assignments + 1
    /\ pc' = [pc EXCEPT ![t] = "read"]
    /\ UNCHANGED <<expression_file, expression_data_cache, expr_args, loaded, expr_result,
                   load_calls, notExpressionVars>>

\* the rest of get_expression_data_cached, on the table the global holds now
expression_read(t) ==
    /\ pc[t] = "read"
    /\ expr_result' = [expr_result EXCEPT ![t] =
                           ExpressionData(_expression_cache, expr_args[t].gene_symbol,
                                          expr_args[t].log_scale)]
    /\ pc' = [pc EXCEPT ![t] = "done"]
    /\ UNCHANGED <<_expression_cache, expression_file, expression_data_cache, expr_args,
                   loaded, load_calls, assignments, notExpressionVars>>

\* the 3600 seconds of the django cache entry have passed
expression_data_cache_expire ==
    /\ expression_data_cache # None
    /\ expression_data_cache' = None
    /\ UNCHANGED <<_expression_cache, expression_file, pc, expr_args, loaded, expr_result,
                   load_calls, assignments, notExpressionVars>>

NextExpression ==
    \/ \E t \in Threads : expression_check(t)
    \/ \E t \in Threads : load_expression_cache(t)
    \/ \E t \in Threads : expression_assign(t)
    \/ \E t \in Threads : expression_read(t)
    \/ expression_data_cache_expire

SpecExpression == InitExpression /\ [][NextExpression]_vars

(***************************************************************************)
(* The enhancer queries on the tables enhancers_all and enhancer_class:    *)
(* get_enhancers_in_region, get_enhancers_in_region_optimized and          *)
(* get_enhancers_in_region_enhanced.  Scores are held in tenths.           *)
(***************************************************************************)
\* the rows of a table in the order of their enh_id
RECURSIVE TableOf(_)
TableOf(S) ==
    IF S = {} THEN <<>>
    ELSE LET last == CHOOSE e \in S : \A o \in S : o.enh_id <= e.enh_id
         IN  Append(TableOf(S \ {last}), last)

\* enhancers_all e LEFT JOIN enhancer_class ec: enh_id is the primary key of
\* enhancer_class, so every enhancer gives one row
JoinedTable(enhancers, enhancer_class) ==
    [i \in 1..Len(enhancers) |->
        CHOOSE r \in LeftJoinClass(enhancers[i], enhancer_class) : TRUE]

\* CREATE VIEW enhancers_hiconf: score IS NOT NULL AND score > 0.5
HiconfView(enhancers) ==
    LET HighConfidence(e) == e.score # NullNumber /\ e.score > 5
    IN  SelectSeq(enhancers, HighConfidence)

\* the columns of the view enhancers_tissue_any, an aggregate per species and tissue
TissueAnyColumns ==
    {"species_id", "tissue", "enhancer_count", "avg_score", "min_score", "max_score"}

\* the columns of e that the enhanced query names
EnhancedQueryColumns ==
    {"enh_id", "chrom", "start", "end", "tissue", "score", "source", "species_id"}

supported_tissues == {"Brain", "Heart", "Liver"}

\* the WHERE clause of the enhanced query on enhancers_hiconf
EnhancedRowMatches(row, species_id, chrom, start, end, tissue, enhancer_classes) ==
    /\ row.species_id = species_id
    /\ row.chrom = chrom
    /\ row.start < end
    /\ row.end > start
    /\ row.tissue = tissue
    /\ (enhancer_classes # <<>> =>
            Coalesce(row.class, "unlabeled") \in Range(enhancer_classes))

EnhancerLimitEnhanced == 1000

\* the outcomes of get_enhancers_in_region_enhanced: a record list (under rows), or
\* the error of the database when the query names columns its view does not have; has_score is 1 on
\* every row of enhancers_hiconf, so the order is that of the score and the start
get_enhancers_in_region_enhanced(db, species_id, chrom, start, end, tissue, enhancer_classes) ==
    IF tissue \in supported_tissues
    THEN LET Match(row) == EnhancedRowMatches(row, species_id, chrom, start, end,
                                              tissue, enhancer_classes)
             selected == SelectSeq(JoinedTable(HiconfView(db.enhancers_all),
                                               db.enhancer_class), Match)
         IN  {[rows |-> [i \in 1..Min(Len(rows), EnhancerLimitEnhanced) |->
                  [enh_id |-> rows[i].enh_id, chrom |-> rows[i].chrom,
                   start |-> rows[i].start, end |-> rows[i].end,
                   tissue |-> rows[i].tissue, score |-> rows[i].score,
                   source |-> rows[i].source,
                   class |-> Coalesce(rows[i].class, "unlabeled"),
                   quality_flag |-> "high_confidence", has_score |-> 1]]] :
                 rows \in {a \in Arrangements(selected) : OrderedByScoreDescStart(a)}}
    ELSE IF EnhancedQueryColumns \subseteq TissueAnyColumns
         THEN {[rows |-> <<>>]}
         ELSE {Raise("OperationalError")}

QueryChrom == "chr11"

\* rows of enhancers_all around the window 100..500: inside it, touching its start,
\* touching its end, of another species, on another chromosome, without tissue,
\* without score, of another tissue and with a low score
QueryEnhancers ==
    {[enh_id |-> 1, species_id |-> "human_hg38", chrom |-> QueryChrom, start |-> 100,
      end |-> 300, tissue |-> "Liver", score |-> 9, source |-> "ENCODE"],
     [enh_id |-> 2, species_id |-> "human_hg38", chrom |-> QueryChrom, start |-> 300,
      end |-> 600, tissue |-> NULL, score |-> NullNumber, source |-> NULL],
     [enh_id |-> 3, species_id |-> "human_hg38", chrom |-> QueryChrom, start |-> 0,
      end |-> 100, tissue |-> "Liver", score |-> 9, source |-> "ENCODE"],
     [enh_id |-> 4, species_id |-> "human_hg38", chrom |-> QueryChrom, start |-> 500,
      end |-> 700, tissue |-> "Liver", score |-> 9, source |-> "ENCODE"],
     [enh_id |-> 5, species_id |-> "mouse_mm39", chrom |-> QueryChrom, start |-> 110,
      end |-> 310, tissue |-> "Liver", score |-> 9, source |-> "ENCODE"],
     [enh_id |-> 6, species_id |-> "human_hg38", chrom |-> "chr12", start |-> 120,
      end |-> 320, tissue |-> "Liver", score |-> 9, source |-> "ENCODE"],
     [enh_id |-> 7, species_id |-> "human_hg38", chrom |-> QueryChrom, start |-> 200,
      end |-> 400, tissue |-> "Brain", score |-> 5, source |-> "ENCODE"]}

QueryClassRows ==
    {[enh_id |-> 1, class |-> "conserved"], [enh_id |-> 2, class |-> "gained"],
     [enh_id |-> 7, class |-> "conserved"]}

QueryWindow == <<100, 500>>
QueryTissues == {"Liver", "Brain", "Other"}
QueryClassLists ==
    {<<>>, <<"unlabeled">>, <<"conserved">>, <<"conserved", "unlabeled">>}

InitQuery ==
    /\ query_db \in {[enhancers_all |-> TableOf(S), enhancer_class |-> C] :
                         S \in {T \in SUBSET QueryEnhancers : Cardinality(T) <= MaxEnh},
                         C \in SUBSET QueryClassRows}
    /\ query_call = NoCall
    /\ query_result = None
    /\ OthersIdle("query")

QueryArgs(fn, species_id, tissue, enhancer_classes) ==
    [fn |-> fn, species_id |-> species_id, chrom |-> QueryChrom,
     start |-> QueryWindow[1], end |-> QueryWindow[2], tissue |-> tissue,
     enhancer_classes |-> enhancer_classes]

\* The tables are read only and a query keeps nothing, so a behaviour is one call.
call_get_enhancers_in_region ==
    \E species_id \in SpeciesIds, tissue \in QueryTissues, enhancer_classes \in QueryClassLists :
        /\ query_call = NoCall
        /\ query_call' = QueryArgs("get_enhancers_in_region", species_id, tissue,
                                   enhancer_classes)
        /\ query_result' = [rows |-> get_enhancers_in_region(
                               JoinedTable(query_db.enhancers_all, query_db.enhancer_class),
                               species_id, QueryChrom, QueryWindow[1], QueryWindow[2],
                               tissue, enhancer_classes)]
        /\ UNCHANGED <<query_db, notQueryVars>>

call_get_enhancers_in_region_optimized ==
    \E species_id \in SpeciesIds, tissue \in QueryTissues, enhancer_classes \in QueryClassLists :
        /\ query_call = NoCall
        /\ query_call' = QueryArgs("get_enhancers_in_region_optimized", species_id, tissue,
                                   enhancer_classes)
        /\ \E rows \in get_enhancers_in_region_optimized(
                               JoinedTable(query_db.enhancers_all, query_db.enhancer_class),
                               species_id, QueryChrom, QueryWindow[1], QueryWindow[2],
                               tissue, enhancer_classes) :
               query_result' = [rows |-> rows]
        /\ UNCHANGED <<query_db, notQueryVars>>

call_get_enhancers_in_region_enhanced ==
    \E species_id \in SpeciesIds, tissue \in QueryTissues, enhancer_classes \in QueryClassLists :
        /\ query_call = NoCall
        /\ query_call' = QueryArgs("get_enhancers_in_region_enhanced", species_id, tissue,
                                   enhancer_classes)
        /\ \E outcome \in get_enhancers_in_region_enhanced(
                               query_db, species_id, QueryChrom, QueryWindow[1],
                               QueryWindow[2], tissue, enhancer_classes) :
               query_result' = outcome
        /\ UNCHANGED <<query_db, notQueryVars>>

NextQuery ==
    \/ call_get_enhancers_in_region
    \/ call_get_enhancers_in_region_optimized
    \/ call_get_enhancers_in_region_enhanced

SpecQuery == InitQuery /\ [][NextQuery]_vars

(***************************************************************************)
(* The sizes of the interval queries' results.  A table of thousands of    *)
(* rows is held as the number of its rows that meet the WHERE clause of a  *)
(* query on a window; a query returns that many rows, or as many as its    *)
(* LIMIT allows.                                                           *)
(***************************************************************************)
Relations == {"enhancers_all", "enhancers_hiconf", "gwas_snps", "ctcf_sites"}
MatchCounts == {0, 50, 51, 200, 201, 1000, 1001, 5000, 5001}

\* len(cursor.fetchall()) of a query with LIMIT limit
FetchedWithLimit(matching, limit) == Min(matching, limit)

GwasLimit == 200

\* enhancers_hiconf is a part of enhancers_all
InitCap ==
    /\ rows_matching \in {f \in [Relations -> MatchCounts] :
                               f["enhancers_hiconf"] <= f["enhancers_all"]}
    /\ cap_call = NoCall
    /\ rows_fetched = 0
    /\ builder_records = 0
    /\ OthersIdle("cap")

\* get_combined_region_data: the optimized enhancer query, whose list goes to
\* create_conservation_heatmap_optimized
fetch_enhancers_optimized ==
    LET n == FetchedWithLimit(rows_matching["enhancers_all"], EnhancerLimitOptimized)
    IN  /\ cap_call' = [fn |-> "get_enhancers_in_region_optimized"]
        /\ rows_fetched' = n
        /\ builder_records' = n
        /\ UNCHANGED <<rows_matching, notCapVars>>

\* create_conservation_heatmap: the base enhancer query, whose list goes to the
\* builder's loops
fetch_enhancers ==
    LET n == FetchedWithLimit(rows_matching["enhancers_all"], EnhancerLimit)
    IN  /\ cap_call' = [fn |-> "get_enhancers_in_region"]
        /\ rows_fetched' = n
        /\ builder_records' = n
        /\ UNCHANGED <<rows_matching, notCapVars>>

fetch_enhancers_enhanced ==
    /\ cap_call' = [fn |-> "get_enhancers_in_region_enhanced"]
    /\ rows_fetched' = FetchedWithLimit(rows_matching["enhancers_hiconf"], EnhancerLimitEnhanced)
    /\ UNCHANGED <<rows_matching, builder_records, notCapVars>>

fetch_gwas_snps_optimized ==
    /\ cap_call' = [fn |-> "get_gwas_snps_in_region_optimized"]
    /\ rows_fetched' = FetchedWithLimit(rows_matching["gwas_snps"], GwasLimitOptimized)
    /\ UNCHANGED <<rows_matching, builder_records, notCapVars>>

fetch_gwas_snps ==
    /\ cap_call' = [fn |-> "get_gwas_snps_in_region"]
    /\ rows_fetched' = FetchedWithLimit(rows_matching["gwas_snps"], GwasLimit)
    /\ UNCHANGED <<rows_matching, builder_records, notCapVars>>

fetch_ctcf_sites_optimized ==
    /\ cap_call' = [fn |-> "get_ctcf_sites_in_region_optimized"]
    /\ rows_fetched' = FetchedWithLimit(rows_matching["ctcf_sites"], CtcfLimitOptimized)
    /\ UNCHANGED <<rows_matching, builder_records, notCapVars>>

\* get_ctcf_sites_in_region: the query has no LIMIT and no ORDER BY
fetch_ctcf_sites ==
    /\ cap_call' = [fn |-> "get_ctcf_sites_in_region"]
    /\ rows_fetched' = rows_matching["ctcf_sites"]
    /\ UNCHANGED <<rows_matching, builder_records, notCapVars>>

NextCap ==
    \/ fetch_enhancers_optimized
    \/ fetch_enhancers
    \/ fetch_enhancers_enhanced
    \/ fetch_gwas_snps_optimized
    \/ fetch_gwas_snps
    \/ fetch_ctcf_sites_optimized
    \/ fetch_ctcf_sites

SpecCap == InitCap /\ [][NextCap]_vars

(***************************************************************************)
(* APIResponseCacheMiddleware around the URL handlers, with health_check   *)
(* behind /api/health/.  A request is [method, path, GET]: the path is the *)
(* sequence of its segments and GET the urlencoded query string.  A        *)
(* response is [status_code, content]; content is held as the kind of its  *)
(* bytes and, for JSON, the value they decode to.                          *)
(***************************************************************************)
Methods == {"GET", "POST"}
HealthPath == <<"api", "health">>
RegionPath == <<"api", "genes", "region">>
RootHealthPath == <<"health">>
Paths == {HealthPath, RegionPath, RootHealthPath}
\* the query string of a request, cut where a percent escape begins and ends
QueryStrings == {<<>>, <<"gene=BDNF">>, <<"gene=", "%42", "DNF">>}

\* QueryDict(query_string).urlencode(): escapes of characters that need none are gone
Unquote(part) == IF part = "%42" THEN "B" ELSE part
Urlencode(query) == Join("", [i \in DOMAIN query |-> Unquote(query[i])])

\* request.path
PathString(path) == "/" \o Join("/", path) \o "/"

\* '/api/' in request.path
IsApiPath(path) == \E i \in DOMAIN path : path[i] = "api"

\* _generate_cache_key
_generate_cache_key(req) ==
    <<"api_cache_", Md5Hexdigest(PathString(req.path) \o "?" \o req.GET)>>

Json(value) == [kind |-> "json", value |-> value]
Html == [kind |-> "html", value |-> "page"]
\* a StreamingHttpResponse has no content attribute
Streaming == [kind |-> "streaming", value |-> "chunks"]
\* bytes that are no text in any encoding json.loads detects
Binary == [kind |-> "binary", value |-> "bytes"]

\* values of the JSON a handler answers with; [] is falsy in Python
FalsyValues == {"[]"}
Truthy(value) == value \notin FalsyValues

HttpResponse(status_code, content) == [status_code |-> status_code, content |-> content]

\* JsonResponse(cached_response, safe=False)
JsonResponse(data) == HttpResponse(200, Json(data))

\* health_check: the response and whether its SELECT 1 succeeded
health_check(db) ==
    IF db
    THEN [response |-> HttpResponse(200, Json("healthy")), select_1 |-> TRUE]
    ELSE [response |-> HttpResponse(503, Json("unhealthy")), select_1 |-> FALSE]

\* what a handler other than the health checks may answer
HandlerStatuses == {200, 404, 500, 503}
HandlerContents == {Json("data"), Json("[]"), Html, Streaming, Binary}

\* self.get_response(request): the responses the wrapped handlers can give
get_response(db, req) ==
    IF req.path = HealthPath
    THEN IF req.method = "GET"
         THEN {health_check(db)}
         ELSE {[response |-> HttpResponse(405, Json("method not allowed")),
                select_1 |-> FALSE]}
    ELSE IF req.path = RootHealthPath
    THEN {[response |-> HttpResponse(200, Json("healthy")), select_1 |-> FALSE]}
    ELSE {[response |-> HttpResponse(s, c), select_1 |-> FALSE] :
              s \in HandlerStatuses, c \in HandlerContents}

\* the first test of __call__ and the truth of cached_response
AnsweredFromCache(c, req) ==
    /\ req.method = "GET"
    /\ IsApiPath(req.path)
    /\ _generate_cache_key(req) \in DOMAIN c
    /\ Truthy(c[_generate_cache_key(req)])

\* a variant of the second test that takes a response of any status
CacheableAnyStatus(req, resp) ==
    /\ req.method = "GET"
    /\ IsApiPath(req.path)
    /\ resp.content.kind # "streaming"

\* the second test of __call__: method, path, status_code and hasattr content
Cacheable(req, resp) ==
    /\ req.method = "GET"
    /\ IsApiPath(req.path)
    /\ resp.status_code = 200
    /\ resp.content.kind # "streaming"

\* the response of Django's exception handling when __call__ raises
ServerError == HttpResponse(500, Html)

InitMiddleware ==
    /\ db_reachable = TRUE
    /\ api_cache = <<>>
    /\ request = None
    /\ db_on_arrival = TRUE
    /\ response = None
    /\ handler_invoked = FALSE
    /\ select_1_ok = FALSE
    /\ api_stored_for = <<>>
    /\ entry_on_arrival = None
    /\ OthersIdle("middleware")

\* APIResponseCacheMiddleware.__call__ on one request
middleware_call ==
    \E method \in Methods, path \in Paths, query \in QueryStrings :
        LET req == [method |-> method, path |-> path, query_string |-> Join("", query),
                    GET |-> Urlencode(query)]
            stored_key == _generate_cache_key(req)
            storing == [path |-> req.path, query_string |-> req.query_string]
        IN  /\ request' = req
            /\ db_on_arrival' = db_reachable
            /\ entry_on_arrival' =
                   IF stored_key \in DOMAIN api_cache
                   THEN [value |-> api_cache[stored_key], stored_for |-> api_stored_for[stored_key]]
                   ELSE None
            /\ IF AnsweredFromCache(api_cache, req)
               THEN /\ response' = JsonResponse(api_cache[stored_key])
                    /\ handler_invoked' = FALSE
                    /\ select_1_ok' = FALSE
                    /\ UNCHANGED <<api_cache, api_stored_for>>
               ELSE \E handled \in get_response(db_reachable, req) :
                        /\ handler_invoked' = TRUE
                        /\ select_1_ok' = handled.select_1
                        /\ IF Cacheable(req, handled.response)
                           THEN CASE handled.response.content.kind = "json" ->
                                         /\ api_cache' = CacheSet(api_cache, stored_key,
                                                handled.response.content.value)
                                         /\ api_stored_for' =
                                                CacheSet(api_stored_for, stored_key, storing)
                                         /\ response' = handled.response
                                  [] handled.response.content.kind = "binary" ->
                                         \* UnicodeDecodeError is not caught
                                         /\ UNCHANGED <<api_cache, api_stored_for>>
                                         /\ response' = ServerError
                                  [] OTHER ->
                                         \* json.JSONDecodeError: pass
                                         /\ UNCHANGED <<api_cache, api_stored_for>>
                                         /\ response' = handled.response
                           ELSE /\ UNCHANGED <<api_cache, api_stored_for>>
                                /\ response' = handled.response
            /\ UNCHANGED <<db_reachable, notMiddlewareVars>>

\* an entry leaves the cache when its 300 seconds have passed
api_cache_expire ==
    \E key \in DOMAIN api_cache :
        /\ api_cache' = CacheExpire(api_cache, key)
        /\ api_stored_for' = CacheExpire(api_stored_for, key)
        /\ UNCHANGED <<db_reachable, request, db_on_arrival, response, handler_invoked,
                       select_1_ok, entry_on_arrival, notMiddlewareVars>>

\* the database becomes unreachable, or reachable again, between requests
database_reachability_changes ==
    /\ db_reachable' = ~db_reachable
    /\ UNCHANGED <<api_cache, request, db_on_arrival, response, handler_invoked,
                   select_1_ok, api_stored_for, entry_on_arrival, notMiddlewareVars>>

NextMiddleware ==
    \/ middleware_call
    \/ api_cache_expire
    \/ database_reachability_changes

SpecMiddleware == InitMiddleware /\ [][NextMiddleware]_vars

(***************************************************************************)
(* ReadOnlyDatabaseMiddleware around a handler that may try to write.      *)
(* query_only is the state of the SQLite connection of the serving thread; *)
(* a handler's write changes the database only while query_only is off.    *)
(***************************************************************************)
Engines == {"django.db.backends.sqlite3", "django.db.backends.mysql"}

\* 'sqlite3' in settings.DATABASES['default']['ENGINE']
IsSqlite(engine) == engine = "django.db.backends.sqlite3"

\* how set_readonly(connection) can end
PragmaOutcomes == {"executed", "AttributeError", "RuntimeError", "OperationalError"}

\* except (AttributeError, RuntimeError): pass
Swallowed(outcome) == outcome \in {"AttributeError", "RuntimeError"}

NoPragma == "not issued"
MaxRequests == 3

InitReadOnly ==
    /\ settings \in [DEBUG : BOOLEAN, ENGINE : Engines]
    /\ query_only = FALSE
    /\ readonly_pc = "idle"
    /\ pragma = NoPragma
    /\ pragmas_issued = 0
    /\ handler_ran = FALSE
    /\ rows_written = 0
    /\ requests_seen = 0
    /\ OthersIdle("readOnly")

\* __call__ up to self.get_response: the pragma is attempted in production on SQLite
readonly_call ==
    /\ readonly_pc \in {"idle", "returned", "raised"}
    /\ requests_seen < MaxRequests
    /\ requests_seen' = requests_seen + 1
    /\ handler_ran' = FALSE
    /\ IF ~settings.DEBUG /\ IsSqlite(settings.ENGINE)
       THEN \E outcome \in PragmaOutcomes :
                /\ pragma' = outcome
                /\ pragmas_issued' = pragmas_issued + 1
                /\ query_only' = IF outcome = "executed" THEN TRUE ELSE query_only
                /\ readonly_pc' = IF outcome = "executed" \/ Swallowed(outcome)
                                  THEN "get_response" ELSE "raised"
       ELSE /\ pragma' = NoPragma
            /\ readonly_pc' = "get_response"
            /\ UNCHANGED <<pragmas_issued, query_only>>
    /\ UNCHANGED <<settings, rows_written, notReadOnlyVars>>

\* response = self.get_response(request): the handler reads, or tries to write a row
readonly_get_response ==
    /\ readonly_pc = "get_response"
    /\ \E writes \in BOOLEAN :
           rows_written' = IF writes /\ ~query_only
                           THEN rows_written + 1 ELSE rows_written
    /\ handler_ran' = TRUE
    /\ readonly_pc' = "returned"
    /\ UNCHANGED <<settings, query_only, pragma, pragmas_issued, requests_seen,
                   notReadOnlyVars>>

\* the connection is closed between requests; a new one starts with query_only off
connection_closed ==
    /\ readonly_pc \in {"idle", "returned", "raised"}
    /\ query_only
    /\ query_only' = FALSE
    /\ UNCHANGED <<settings, readonly_pc, pragma, pragmas_issued, handler_ran,
                   rows_written, requests_seen, notReadOnlyVars>>

NextReadOnly ==
    \/ readonly_call
    \/ readonly_get_response
    \/ connection_closed

SpecReadOnly == InitReadOnly /\ [][NextReadOnly]_vars

(***************************************************************************)
(* The management command migrate_to_mysql.  A table name is the sequence  *)
(* of its words (gene_expression is <<"gene", "expression">>), a table the *)
(* sequence of its rows, a database a function from table names to tables. *)
(* MySQL runs in autocommit: a statement that was executed stays executed  *)
(* when a later one fails.                                                 *)
(***************************************************************************)
MaxRows == 2
DataTables == {<<"genes">>, <<"gene", "expression">>}
MetaTables == {<<"django", "migrations">>}

\* the tables a database may hold: rows 1..n in SQLite, one old row or none in MySQL
SqliteRowLists == {[i \in 1..n |-> i] : n \in 0..MaxRows}
OldRow == 99
MysqlRowLists == {<<>>, <<OldRow>>}

\* name LIKE 'word_%'
Like(name, word) == Len(name) >= 2 /\ name[1] = word

\* the tables of sqlite_master that are no metadata tables
MigratedTables(db) ==
    {name \in DOMAIN db :
         ~Like(name, "django") /\ ~Like(name, "auth") /\ ~Like(name, "sqlite")}

Statement(db, kind, table) == [db |-> db, kind |-> kind, table |-> table]

\* the branch of handle that calls migrate_table, for every value of --dry-run
PerformsMigrationAlways(dry_run) == TRUE

\* if dry_run ... else: the branch of handle that calls migrate_table
PerformsMigration(dry_run) == ~dry_run

\* batch_size = 1000 of migrate_table
MigrateBatchSize == 1000

\* range(0, total_rows, batch_size)
BatchStarts(total_rows) == {i \in 0..(total_rows - 1) : i % MigrateBatchSize = 0}

\* rows[i:i + batch_size]
Batch(rows, i) == SubSeq(rows, i + 1, Min(i + MigrateBatchSize, Len(rows)))

\* the MySQL table after DELETE and the executemany calls that start before row failed_at
RECURSIVE InsertBatches(_, _, _)
InsertBatches(rows, i, failed_at) ==
    IF i >= Len(rows) \/ i >= failed_at THEN <<>>
    ELSE Batch(rows, i) \o InsertBatches(rows, i + MigrateBatchSize, failed_at)

InitMigrate ==
    /\ sqlite_db \in {[name \in S \cup MetaTables |-> IF name \in S THEN c[name] ELSE <<1>>] :
                          S \in SUBSET DataTables, c \in [DataTables -> SqliteRowLists]}
    /\ mysql_db \in [DataTables \cup MetaTables -> MysqlRowLists]
    /\ mysql_before = mysql_db
    /\ migrate_options \in [dry_run : BOOLEAN, sqlite_exists : BOOLEAN, mysql_engine : BOOLEAN]
    /\ migrate_pc = "start"
    /\ tables = <<>>
    /\ migrated = {}
    /\ statements = {}
    /\ reported = <<>>
    /\ OthersIdle("migrate")

\* handle up to the loop over the tables
migrate_handle ==
    /\ migrate_pc = "start"
    /\ IF ~migrate_options.sqlite_exists \/ ~migrate_options.mysql_engine
       THEN /\ migrate_pc' = "CommandError"
            /\ UNCHANGED <<tables, statements>>
       ELSE /\ statements' = {Statement("sqlite", "SELECT name", <<"sqlite", "master">>)}
            /\ IF MigratedTables(sqlite_db) = {}
               THEN migrate_pc' = "returned" /\ tables' = <<>>
               ELSE /\ migrate_pc' = "tables"
                    /\ tables' \in {t \in [1..Cardinality(MigratedTables(sqlite_db)) ->
                                               MigratedTables(sqlite_db)] :
                                        \A i, j \in DOMAIN t : i # j => t[i] # t[j]}
    /\ UNCHANGED <<sqlite_db, mysql_db, mysql_before, migrate_options, migrated, reported,
                   notMigrateVars>>

\* one turn of the dry-run loop: SELECT COUNT on the table, and the line written
dry_run_table ==
    /\ migrate_pc = "tables"
    /\ ~PerformsMigration(migrate_options.dry_run)
    /\ tables # <<>>
    /\ LET table == Head(tables)
       IN  /\ statements' = statements \cup {Statement("sqlite", "SELECT COUNT", table)}
           /\ reported' = CacheSet(reported, table, Len(sqlite_db[table]))
    /\ tables' = Tail(tables)
    /\ UNCHANGED <<sqlite_db, mysql_db, mysql_before, migrate_options, migrate_pc, migrated,
                   notMigrateVars>>

\* migrate_table on the next table; failing names the statement that raises, if any,
\* and for an INSERT the row its batch starts at
migrate_table ==
    /\ migrate_pc = "tables"
    /\ PerformsMigration(migrate_options.dry_run)
    /\ tables # <<>>
    /\ LET table == Head(tables)
           rows == sqlite_db[table]
           select == Statement("sqlite", "SELECT *", table)
           delete == Statement("mysql", "DELETE", table)
           insert == Statement("mysql", "INSERT", table)
       IN  \E failing \in {<<"none", 0>>, <<"SELECT", 0>>, <<"DELETE", 0>>}
                             \cup {<<"INSERT", i>> : i \in BatchStarts(Len(rows))} :
               IF failing[1] = "SELECT"
               THEN /\ statements' = statements \cup {select}
                    /\ migrate_pc' = "CommandError"
                    /\ UNCHANGED <<mysql_db, tables, migrated>>
               ELSE IF rows = <<>>
               THEN /\ failing[1] = "none"
                    /\ statements' = statements \cup {select}
                    /\ tables' = Tail(tables)
                    /\ migrated' = migrated \cup {table}
                    /\ UNCHANGED <<mysql_db, migrate_pc>>
               ELSE IF failing[1] = "DELETE"
               THEN /\ statements' = statements \cup {select, delete}
                    /\ migrate_pc' = "CommandError"
                    /\ UNCHANGED <<mysql_db, tables, migrated>>
               ELSE IF failing[1] = "none"
               THEN /\ statements' = statements \cup {select, delete, insert}
                    /\ mysql_db' = [mysql_db EXCEPT ![table] = InsertBatches(rows, 0, Len(rows))]
                    /\ tables' = Tail(tables)
                    /\ migrated' = migrated \cup {table}
                    /\ UNCHANGED migrate_pc
               ELSE /\ statements' = statements \cup {select, delete, insert}
                    /\ mysql_db' = [mysql_db EXCEPT ![table] = InsertBatches(rows, 0, failing[2])]
                    /\ migrate_pc' = "CommandError"
                    /\ UNCHANGED <<tables, migrated>>
    /\ UNCHANGED <<sqlite_db, mysql_before, migrate_options, reported, notMigrateVars>>

\* after the loop: sqlite_conn.close() and, unless --dry-run, the success message
migrate_finish ==
    /\ migrate_pc = "tables"
    /\ tables = <<>>
    /\ migrate_pc' = IF migrate_options.dry_run THEN "returned" ELSE "SUCCESS"
    /\ UNCHANGED <<sqlite_db, mysql_db, mysql_before, migrate_options, tables, migrated,
                   statements, reported, notMigrateVars>>

NextMigrate ==
    \/ migrate_handle
    \/ dry_run_table
    \/ migrate_table
    \/ migrate_finish

SpecMigrate == InitMigrate /\ [][NextMigrate]_vars

(***************************************************************************)
(* The management command load_expression_data.  A row of the TSV file is  *)
(* what csv.DictReader yields: a value per column, None where the line has *)
(* fewer fields than the header.  A text value is [str |-> s].  line is    *)
(* the position of the row in the file; it is carried to tell rows apart.  *)
(***************************************************************************)
MaxFileRows == 3
MaxBatchSize == 2

Str(s) == [str |-> s]

\* the lines a file may hold after its header
RowKinds ==
    {[symbol |-> Str("BDNF"), tissue |-> Str("Brain"), tpm |-> Str("1.5")],
     [symbol |-> Str(" "), tissue |-> Str("Brain"), tpm |-> Str("2")],
     [symbol |-> Str("BDNF"), tissue |-> Str("Liver"), tpm |-> Str("n/a")],
     [symbol |-> Str("BDNF"), tissue |-> Str("Liver"), tpm |-> None],
     [symbol |-> Str("BDNF"), tissue |-> None, tpm |-> None]}

ExpressionFiles == UNION {[1..n -> RowKinds] : n \in 0..MaxFileRows}

\* str.strip
Strip(s) == IF s = " " THEN "" ELSE s

\* float(text): a rational under float, or ValueError
Float(s) ==
    CASE s = "1.5" -> [float |-> <<3, 2>>]
      [] s = "2" -> [float |-> <<2, 1>>]
      [] OTHER -> Raise("ValueError")

\* lines 66-74 on one row: the GeneExpression object, or the exception raised
ParseRow(row, line) ==
    IF row.symbol = None THEN Raise("AttributeError")
    ELSE IF row.tissue = None THEN Raise("AttributeError")
    ELSE IF row.tpm = None THEN Raise("TypeError")
    ELSE IF Raised(Float(row.tpm.str)) THEN Float(row.tpm.str)
    ELSE [object |-> "GeneExpression", symbol |-> Strip(row.symbol.str),
          tissue |-> Strip(row.tissue.str), tpm |-> Float(row.tpm.str).float, line |-> line]

\* len(batch) >= batch_size
BatchIsFull(batch_len, batch_size) == batch_len >= batch_size

InitLoad ==
    /\ load_file \in ExpressionFiles
    /\ load_options \in [batch_size : 0..MaxBatchSize, clear : BOOLEAN, file_exists : BOOLEAN]
    /\ load_pc = "start"
    /\ next_row = 1
    /\ batch = <<>>
    /\ total_count = 0
    /\ skipped_count = 0
    /\ bulk_create_calls = <<>>
    /\ cleared = FALSE
    /\ OthersIdle("load")

\* handle up to the loop: the file test and --clear
load_handle ==
    /\ load_pc = "start"
    /\ IF ~load_options.file_exists
       THEN load_pc' = "returned" /\ UNCHANGED cleared
       ELSE load_pc' = "rows" /\ cleared' = load_options.clear
    /\ UNCHANGED <<load_file, load_options, next_row, batch, total_count, skipped_count,
                   bulk_create_calls, notLoadVars>>

\* one turn of the loop over the reader
load_row ==
    /\ load_pc = "rows"
    /\ next_row <= Len(load_file)
    /\ next_row' = next_row + 1
    /\ LET parsed == ParseRow(load_file[next_row], next_row)
       IN  IF Raised(parsed)
           THEN IF parsed.exception \in {"ValueError", "KeyError"}
                THEN /\ skipped_count' = skipped_count + 1
                     /\ UNCHANGED <<load_pc, batch, total_count, bulk_create_calls>>
                ELSE /\ load_pc' = "raised"
                     /\ UNCHANGED <<batch, total_count, skipped_count, bulk_create_calls>>
           ELSE IF BatchIsFull(Len(batch) + 1, load_options.batch_size)
           THEN /\ bulk_create_calls' = Append(bulk_create_calls, Append(batch, parsed))
                /\ total_count' = total_count + Len(batch) + 1
                /\ batch' = <<>>
                /\ UNCHANGED <<load_pc, skipped_count>>
           ELSE /\ batch' = Append(batch, parsed)
                /\ UNCHANGED <<load_pc, total_count, skipped_count, bulk_create_calls>>
    /\ UNCHANGED <<load_file, load_options, cleared, notLoadVars>>

\* after the loop: the remaining records and the messages
load_finish ==
    /\ load_pc = "rows"
    /\ next_row > Len(load_file)
    /\ IF batch # <<>>
       THEN /\ bulk_create_calls' = Append(bulk_create_calls, batch)
            /\ total_count' = total_count + Len(batch)
       ELSE UNCHANGED <<bulk_create_calls, total_count>>
    /\ load_pc' = "returned"
    /\ UNCHANGED <<load_file, load_options, next_row, batch, skipped_count, cleared,
                   notLoadVars>>

NextLoad ==
    \/ load_handle
    \/ load_row
    \/ load_finish

SpecLoad == InitLoad /\ [][NextLoad]_vars

(***************************************************************************)
(* The Quality Advisor in the endpoints: the qualityInfo of                *)
(* combined_gene_data, and data_quality_summary with                       *)
(* generate_quality_recommendations.  advisor_db holds, per species, the   *)
(* row counts the endpoints read: enhancers_all, those with a score, and   *)
(* enhancers_hiconf per tissue; enhancers_hiconf is a part of the scored   *)
(* rows of enhancers_all.                                                  *)
(***************************************************************************)
AdvisorCounts == {0, 23, 50, 999, 1000}
AdvisorTotals == {0, 10, 100, 10000}
AdvisorScored == {0, 6, 7, 8, 69, 70, 6999, 7000}
MappingCount == 5
RequestedTissues == TissueNames \cup {"Heart"}

HiconfTotal(view, species_id) ==
    view[<<species_id, "Brain">>] + view[<<species_id, "Liver">>]

\* the four SELECT COUNT of data_quality_summary, as the dict built from them
QualityStats(db, species_id) ==
    [enhancers_total |-> db.enhancers_total[species_id],
     enhancers_with_scores |-> db.enhancers_with_scores[species_id],
     enhancers_high_confidence |-> HiconfTotal(db.enhancers_hiconf, species_id),
     gene_enhancer_mappings |-> MappingCount]

\* t['coverage_level'] in ['critical', 'low']
IsLowCoverage(t) == t.coverage_level \in {"critical", "low"}

\* score_coverage < 0.7, on counts far below 2^53
BelowScoreCoverage(with_scores, total) == 10 * with_scores < 7 * total

ScoresRecommendation(quality_stats) ==
    IF quality_stats.enhancers_total > 0
       /\ BelowScoreCoverage(quality_stats.enhancers_with_scores, quality_stats.enhancers_total)
    THEN <<[type |-> "scores", severity |-> "info",
            score_coverage |-> Rat(quality_stats.enhancers_with_scores,
                                   quality_stats.enhancers_total)]>>
    ELSE <<>>

TissuesRecommendation(tissue_stats_rows) ==
    LET low_coverage_tissues == SelectSeq(tissue_stats_rows, IsLowCoverage)
    IN  IF low_coverage_tissues # <<>>
        THEN <<[type |-> "tissues", severity |-> "warning",
                tissue_names |-> [i \in DOMAIN low_coverage_tissues |->
                                      low_coverage_tissues[i].tissue]]>>
        ELSE <<>>

\* t['tissue'] == 'Liver' and t['enhancer_count'] < 50
IsLiverGap(t) == t.tissue = "Liver" /\ t.enhancer_count < 50

LiverRecommendation(tissue_stats_rows) ==
    IF SelectSeq(tissue_stats_rows, IsLiverGap) # <<>>
    THEN <<[type |-> "critical_data_gap", severity |-> "error", about |-> "Human liver"]>>
    ELSE <<>>

generate_quality_recommendations(quality_stats, tissue_stats_rows) ==
    ScoresRecommendation(quality_stats) \o TissuesRecommendation(tissue_stats_rows)
        \o LiverRecommendation(tissue_stats_rows)

\* next((t for t in tissue_stats if t['tissue'] == tissue), None)
CurrentTissueQuality(tissue_stats_rows, tissue) ==
    IF \E i \in DOMAIN tissue_stats_rows : tissue_stats_rows[i].tissue = tissue
    THEN tissue_stats_rows[CHOOSE i \in DOMAIN tissue_stats_rows :
             /\ tissue_stats_rows[i].tissue = tissue
             /\ \A j \in 1..(i - 1) : tissue_stats_rows[j].tissue # tissue]
    ELSE None

\* the qualityInfo of combined_gene_data
QualityInfo(tissue_stats_rows, tissue) ==
    LET current_tissue_quality == CurrentTissueQuality(tissue_stats_rows, tissue)
    IN  [database_version |-> "enhanced_v2",
         tissue_quality |-> current_tissue_quality,
         quality_warning |-> IF current_tissue_quality # None
                             THEN IsLowCoverage(current_tissue_quality) ELSE FALSE]

InitAdvisor ==
    /\ advisor_db \in
           {db \in [enhancers_total : [SpeciesIds -> AdvisorTotals],
                    enhancers_with_scores : [SpeciesIds -> AdvisorScored],
                    enhancers_hiconf : [SpeciesIds \X TissueNames -> AdvisorCounts]] :
                \A s \in SpeciesIds :
                    /\ HiconfTotal(db.enhancers_hiconf, s) <= db.enhancers_with_scores[s]
                    /\ db.enhancers_with_scores[s] <= db.enhancers_total[s]}
    /\ advisor_call = NoCall
    /\ advisor_response = None
    /\ OthersIdle("advisor")

\* combined_gene_data from the quality indicators on, for a gene that was found
combined_gene_data_quality ==
    \E species_id \in SpeciesIds, tissue \in RequestedTissues :
        \E rows \in OrderedByCountDesc(StatsRows(advisor_db.enhancers_hiconf, species_id)) :
            /\ advisor_call = NoCall
            /\ advisor_call' = [fn |-> "combined_gene_data", species_id |-> species_id,
                                tissue |-> tissue]
            /\ advisor_response' = [qualityInfo |-> QualityInfo(rows, tissue)]
            /\ UNCHANGED <<advisor_db, notAdvisorVars>>

data_quality_summary ==
    \E species_id \in SpeciesIds :
        \E rows \in OrderedByCountDesc(StatsRows(advisor_db.enhancers_hiconf, species_id)) :
            /\ advisor_call = NoCall
            /\ advisor_call' = [fn |-> "data_quality_summary", species_id |-> species_id]
            /\ advisor_response' =
                   [species |-> species_id,
                    quality_stats |-> QualityStats(advisor_db, species_id),
                    tissue_coverage |-> rows,
                    recommendations |-> generate_quality_recommendations(
                                            QualityStats(advisor_db, species_id), rows),
                    database_version |-> "enhanced_v2"]
            /\ UNCHANGED <<advisor_db, notAdvisorVars>>

NextAdvisor == combined_gene_data_quality \/ data_quality_summary

SpecAdvisor == InitAdvisor /\ [][NextAdvisor]_vars

(***************************************************************************)
(* Properties of the builder, stated on the last call and its result.      *)
(***************************************************************************)
Called == call.fn # "none"
Returned == Called /\ ~Raised(matrix_data)

\* the preconditions of build(): region_end > region_start, nbins >= 1, classes non-empty
ValidCall ==
    /\ call.end > call.start
    /\ call.nbins >= 1
    /\ call.enhancer_classes # <<>>

ResultKeys ==
    {"bins", "classes", "matrix", "region_start", "region_end", "nbins",
     "normalized", "tss_position"}

\* record r overlaps bin b half-open: r.end > b.start and r.start < b.end
HalfOpenOverlap(r, b) ==
    /\ b.start[1] < r.end * b.start[2]
    /\ r.start * b.end[2] < b.end[1]

\* the number of records of the call with class classes[c] that overlap the
\* returned bin i
OverlapCount(c, i) ==
    Cardinality({k \in DOMAIN call.enhancers :
        /\ call.enhancers[k].class = call.enhancer_classes[c]
        /\ HalfOpenOverlap(call.enhancers[k], matrix_data.bins[i])})

\* C1: for a call that meets the preconditions, with any record list, the
\* builder returns a matrix of len(classes) rows of nbins columns and nbins bins.
C1_ShapeForEveryRecordList ==
    (Called /\ ValidCall) =>
        /\ ~Raised(matrix_data)
        /\ Len(matrix_data.matrix) = Len(call.enhancer_classes)
        /\ \A c \in DOMAIN matrix_data.matrix : Len(matrix_data.matrix[c]) = call.nbins
        /\ Len(matrix_data.bins) = call.nbins

\* C2: with an empty record list the builder returns len(classes) rows of nbins
\* zeros and a result with the same keys as a non-empty result.
C2_EmptyRecordsZeroFilled ==
    (Called /\ ValidCall /\ call.enhancers = <<>>) =>
        /\ ~Raised(matrix_data)
        /\ matrix_data.matrix =
               [c \in 1..Len(call.enhancer_classes) |-> [i \in 1..call.nbins |-> 0]]
        /\ DOMAIN matrix_data = ResultKeys

\* C3: for a non-empty record list every cell of the unnormalized matrix is the
\* number of records of the row's class that overlap the column's bin half-open;
\* a record that only touches a bin boundary adds nothing to that bin; for region
\* 0..1000 and nbins = 4, one 'conserved' record 100..300 gives the row [1,1,0,0].
C3_CellsCountHalfOpenOverlaps ==
    (Returned /\ call.enhancers # <<>> /\ ~call.normalize_rows) =>
        /\ \A c \in DOMAIN matrix_data.matrix : \A i \in DOMAIN matrix_data.matrix[c] :
               matrix_data.matrix[c][i] = OverlapCount(c, i)
        /\ \A c \in DOMAIN matrix_data.matrix : \A i \in DOMAIN matrix_data.matrix[c] :
               (\A k \in DOMAIN call.enhancers :
                    call.enhancers[k].class = call.enhancer_classes[c] =>
                        \/ IntRat(call.enhancers[k].end) = matrix_data.bins[i].start
                        \/ IntRat(call.enhancers[k].start) = matrix_data.bins[i].end)
                   => matrix_data.matrix[c][i] = 0
        /\ ( /\ call.start = 0 /\ call.end = 1000 /\ call.nbins = 4
             /\ Len(call.enhancers) = 1
             /\ call.enhancers[1].start = 100 /\ call.enhancers[1].end = 300
             /\ call.enhancers[1].class = "conserved" )
           => \A c \in DOMAIN matrix_data.matrix :
                  call.enhancer_classes[c] = "conserved"
                      => matrix_data.matrix[c] = <<1, 1, 0, 0>>

\* the example of C3 by the optimized copy, and a record 100..250 that touches
\* the start of the second bin by the base copy
C3_Witness ==
    /\ Returned
    /\ ~call.normalize_rows
    /\ call.start = 0 /\ call.end = 1000 /\ call.nbins = 4
    /\ call.enhancer_classes = <<"conserved", "gained">>
    /\ Len(call.enhancers) = 1
    /\ call.enhancers[1].start = 100
    /\ call.enhancers[1].class = "conserved"
    /\ \/ /\ call.fn = "create_conservation_heatmap_optimized"
          /\ call.enhancers[1].end = 300
          /\ matrix_data.matrix = <<<<1, 1, 0, 0>>, <<0, 0, 0, 0>>>>
       \/ /\ call.fn = "create_conservation_heatmap"
          /\ call.enhancers[1].end = 250
          /\ matrix_data.matrix = <<<<1, 0, 0, 0>>, <<0, 0, 0, 0>>>>

\* C4: the returned bins are contiguous and cover the region exactly, are
\* numbered from 1 and carry their midpoint (regions whose width is a multiple
\* of nbins, where the float arithmetic is exact).
C4_BinsCoverRegion ==
    (Returned /\ ValidCall /\ (call.end - call.start) % call.nbins = 0) =>
        /\ Len(matrix_data.bins) = call.nbins
        /\ matrix_data.bins[1].start = IntRat(call.start)
        /\ matrix_data.bins[call.nbins].end = IntRat(call.end)
        /\ \A i \in 1..(call.nbins - 1) :
               matrix_data.bins[i].end = matrix_data.bins[i + 1].start
        /\ \A i \in 1..call.nbins :
               /\ matrix_data.bins[i].bin = i
               /\ RatAdd(matrix_data.bins[i].center, matrix_data.bins[i].center)
                      = RatAdd(matrix_data.bins[i].start, matrix_data.bins[i].end)

\* C5: with normalize set, a row whose counts are all 0 stays all 0, and every
\* other row is its counts divided by the row's own maximum count: its maximum
\* is exactly 1 and every cell lies in [0,1].
C5_RowsNormalizedByOwnMaximum ==
    (Returned /\ call.enhancers # <<>> /\ call.normalize_rows) =>
        \A c \in DOMAIN matrix_data.matrix :
            LET row == matrix_data.matrix[c]
                counts == [i \in DOMAIN row |-> OverlapCount(c, i)]
                top == IF row = <<>> THEN 0
                       ELSE CHOOSE m \in Range(counts) : \A x \in Range(counts) : x <= m
            IN  IF top = 0
                THEN \A i \in DOMAIN row : row[i] = IntRat(0)
                ELSE /\ \A i \in DOMAIN row :
                            /\ row[i][1] * top = counts[i] * row[i][2]
                            /\ 0 <= row[i][1] /\ row[i][1] <= row[i][2]
                     /\ \E i \in DOMAIN row : row[i] = IntRat(1)

\* a normalized result with an all-zero row and a row holding 1, 1/2 and 0
C5_Witness ==
    /\ Returned
    /\ call.enhancers # <<>>
    /\ call.normalize_rows
    /\ \E c, d \in DOMAIN matrix_data.matrix :
           /\ matrix_data.matrix[c] = <<<<1, 1>>, <<1, 2>>, <<0, 1>>, <<0, 1>>>>
           /\ matrix_data.matrix[d] = <<<<0, 1>>, <<0, 1>>, <<0, 1>>, <<0, 1>>>>

\* C6: the row-normalization step of each copy is idempotent: applied to a
\* matrix it has produced it returns that matrix.
C6_NormalizationIdempotent ==
    (Returned /\ call.enhancers # <<>>) =>
        LET Step(m) == IF call.fn = "create_conservation_heatmap"
                       THEN [c \in 1..Len(m) |-> NormalizeRowBase(m[c])]
                       ELSE NormalizeRows(m)
            once == IF call.normalize_rows THEN matrix_data.matrix
                    ELSE Step(AsNumbers(matrix_data.matrix))
        IN  Step(once) = once

\* a normalized matrix with a cell strictly between 0 and 1
C6_Witness ==
    /\ Returned
    /\ call.enhancers # <<>>
    /\ call.normalize_rows
    /\ \E c \in DOMAIN matrix_data.matrix : \E i \in DOMAIN matrix_data.matrix[c] :
           /\ RatLT(IntRat(0), matrix_data.matrix[c][i])
           /\ RatLT(matrix_data.matrix[c][i], IntRat(1))

\* each record of a list twice
RECURSIVE Duplicated(_)
Duplicated(s) ==
    IF s = <<>> THEN <<>> ELSE <<Head(s), Head(s)>> \o Duplicated(Tail(s))

\* C7: the optimized builder on the record list with every record duplicated
\* returns an unnormalized matrix whose every cell is twice the cell of the
\* matrix for the list itself.
C7_DuplicationDoubles ==
    (Returned /\ call.fn = "create_conservation_heatmap_optimized"
              /\ ~call.normalize_rows) =>
        LET twice == create_conservation_heatmap_optimized(
                         Duplicated(call.enhancers), call.start, call.end,
                         call.enhancer_classes, call.nbins, call.normalize_rows,
                         call.gene_data)
        IN  /\ ~Raised(twice)
            /\ DOMAIN twice.matrix = DOMAIN matrix_data.matrix
            /\ \A c \in DOMAIN matrix_data.matrix :
                   /\ DOMAIN twice.matrix[c] = DOMAIN matrix_data.matrix[c]
                   /\ \A i \in DOMAIN matrix_data.matrix[c] :
                          twice.matrix[c][i] = 2 * matrix_data.matrix[c][i]

\* an unnormalized result of the optimized copy on two records with a cell of 2
C7_Witness ==
    /\ Returned
    /\ call.fn = "create_conservation_heatmap_optimized"
    /\ ~call.normalize_rows
    /\ Len(call.enhancers) = 2
    /\ \E c \in DOMAIN matrix_data.matrix : \E i \in DOMAIN matrix_data.matrix[c] :
           matrix_data.matrix[c][i] = 2

\* C8: a call that violates a precondition ends with an InvalidArgument error,
\* whether or not the record list is empty.
C8_PreconditionViolationFailsFast ==
    (Called /\ ~ValidCall) =>
        /\ Raised(matrix_data)
        /\ matrix_data.exception = "InvalidArgument"

(***************************************************************************)
(* Properties of the Quality Advisor.                                      *)
(***************************************************************************)
\* the step function of the specification, by its intervals
LevelOf(count) ==
    CASE count >= 0 /\ count < 100 -> "critical"
      [] count >= 100 /\ count < 1000 -> "low"
      [] count >= 1000 /\ count < 10000 -> "medium"
      [] count >= 10000 -> "good"

\* C9: every row get_tissue_coverage_stats returns carries the tissue's number of
\* high-confidence enhancers of the requested species and the level of that
\* number: < 100 critical, < 1000 low, < 10000 medium, otherwise good; each
\* tissue that has rows is reported once.
C9_CoverageIsStepFunction ==
    coverage_call.fn # "none" =>
        /\ \A i \in DOMAIN tissue_stats :
               /\ tissue_stats[i].enhancer_count =
                      enhancers_hiconf[<<coverage_call.species_id, tissue_stats[i].tissue>>]
               /\ tissue_stats[i].coverage_level = LevelOf(tissue_stats[i].enhancer_count)
        /\ \A t \in TissueNames :
               enhancers_hiconf[<<coverage_call.species_id, t>>] > 0 =>
                   Cardinality({i \in DOMAIN tissue_stats : tissue_stats[i].tissue = t}) = 1

\* both copies classify 23 as critical, 999 as low and 10000 as good
C9_Witness ==
    /\ coverage_call.fn # "none"
    /\ Len(tissue_stats) = 2
    /\ tissue_stats[1].enhancer_count \in {999, 10000}
    /\ tissue_stats[1].coverage_level = LevelOf(tissue_stats[1].enhancer_count)
    /\ tissue_stats[2].enhancer_count = 23
    /\ tissue_stats[2].coverage_level = "critical"

(***************************************************************************)
(* Properties of the Region Resolver.                                      *)
(***************************************************************************)
\* C10: for a gene found, tss is the gene's start, start = max(0, tss - flank_kb*1000)
\* and end = tss + flank_kb*1000; start is never negative, end is never clamped,
\* and for flank_kb >= 1 the window is non-empty and contains tss.
C10_WindowAroundTss ==
    (region_call.fn # "none" /\ gene_region # None) =>
        LET flank == region_call.tss_kb * 1000
        IN  /\ \E g \in genes :
                   /\ g.species_id = region_call.species_id
                   /\ g.gene_id = gene_region.gene_id
                   /\ gene_region.tss = g.start
            /\ gene_region.start =
                   (IF gene_region.tss - flank < 0 THEN 0 ELSE gene_region.tss - flank)
            /\ gene_region.end = gene_region.tss + flank
            /\ gene_region.start >= 0
            /\ region_call.tss_kb >= 1 =>
                   /\ gene_region.start < gene_region.end
                   /\ gene_region.start <= gene_region.tss
                   /\ gene_region.tss < gene_region.end

\* a window whose start was clamped: tss = 500 with a flank of 1 kb
C10_Witness ==
    /\ region_call.fn # "none"
    /\ gene_region # None
    /\ region_call.tss_kb = 1
    /\ gene_region.tss = 500
    /\ gene_region.start = 0
    /\ gene_region.end = 1500

\* the gene symbols of the model that differ in letter case only
SymbolFamilies == {{"bdnf", "Bdnf", "BDNF"}, {"alb", "ALB"}, {"TTN"}}
EqualIgnoringCase(a, b) == \E f \in SymbolFamilies : a \in f /\ b \in f

LookedUp == region_call.fn # "none"
Candidates ==
    {g \in genes : /\ EqualIgnoringCase(g.symbol, region_call.gene_symbol)
                   /\ g.species_id = region_call.species_id}

\* C11: a lookup returns a region exactly when the genes table has a row of the given
\* species whose symbol equals the queried one up to letter case, and the region is
\* that of such a row; when there is none the result is None, no region of default
\* values and no exception, and an endpoint answers 404 'Gene not found'.
C11_LookupByCaseFoldedSymbolAndSpecies ==
    LookedUp =>
        /\ ~Raised(gene_region)
        /\ (gene_region = None) <=> (Candidates = {})
        /\ gene_region # None =>
               \E g \in Candidates :
                   /\ gene_region.gene_id = g.gene_id
                   /\ gene_region.symbol = g.symbol
                   /\ gene_region.chrom = g.chrom
                   /\ gene_region.tss = g.start
        /\ region_call.fn \in GeneEndpoints =>
               IF Candidates = {}
               THEN region_response = [status |-> 404, data |-> [error |-> "Gene not found"]]
               ELSE region_response = None

\* 'bdnf' asked of an endpoint for the mouse while only the human BDNF is in the table
C11_Witness ==
    /\ region_call.fn = "combined_gene_data"
    /\ region_call.gene_symbol = "bdnf"
    /\ region_call.species_id = "mouse_mm39"
    /\ \E g \in genes : g.symbol = "BDNF" /\ g.species_id = "human_hg38"
    /\ gene_region = None
    /\ region_response.status = 404

(***************************************************************************)
(* Properties of get_combined_region_data and its result cache.            *)
(***************************************************************************)
CombinedReturned == calls_made > 0 /\ ~Raised(combined_result)

\* two calls have the same parameter tuple: gene, species, tissue, window (flank),
\* class set, nbins and flags
SameParameterTuple(a, b) ==
    /\ a.gene_data = b.gene_data
    /\ a.species_id = b.species_id
    /\ a.tissue = b.tissue
    /\ Range(a.enhancer_classes) = Range(b.enhancer_classes)
    /\ a.nbins = b.nbins
    /\ a.normalize_rows = b.normalize_rows
    /\ a.mark_tss = b.mark_tss
    /\ a.stack_tracks = b.stack_tracks
    /\ a.show_gene = b.show_gene
    /\ a.show_snps = b.show_snps
    /\ a.log_expression = b.log_expression

\* C12: every result get_combined_region_data returns, fresh or from the cache, was
\* computed for the parameter tuple of the call it answers (gene, species, tissue,
\* window, class set, nbins, flags), also for a window whose start was clamped to 0;
\* and no two entries of the cache under one key were stored for different tuples.
C12_CacheKeyedByFullParameterTuple ==
    CombinedReturned => SameParameterTuple(answered_for, combined_call)

\* the number of returned enhancers of class cl that overlap the returned bin b
CombinedOverlapCount(cl, b) ==
    LET enhancers == combined_result.region_data.enhancers
    IN  Cardinality({k \in DOMAIN enhancers :
            enhancers[k].class = cl /\ HalfOpenOverlap(enhancers[k], b)})

\* C13: in every result of get_combined_region_data, fresh or from the cache,
\* matrix_data.classes is the class sequence of the caller and row k of the matrix is
\* the row of the caller's k-th class: its cell i counts (is nonzero for, when rows are
\* normalized) the returned records of that class that overlap bin i.
C13_CallerClassOrderIsRowOrder ==
    CombinedReturned =>
        LET returned == combined_result.matrix_data
            classes == combined_call.enhancer_classes
        IN  /\ returned.classes = classes
            /\ \A k \in DOMAIN returned.matrix :
                   /\ k \in DOMAIN classes
                   /\ \A i \in DOMAIN returned.matrix[k] :
                          LET n == CombinedOverlapCount(classes[k], returned.bins[i])
                              cell == returned.matrix[k][i]
                          IN  IF "normalized" \in DOMAIN returned /\ returned.normalized
                              THEN (cell # IntRat(0)) <=> (n > 0)
                              ELSE cell = n

(***************************************************************************)
(* Properties of the Expression Cache.                                     *)
(***************************************************************************)
\* C14: over every interleaving of the request threads of a process,
\* load_expression_cache is invoked at most once and _expression_cache is assigned
\* at most once, so that once set it is never reloaded or replaced, also when the
\* load gave the empty table.
C14_ExpressionTableLoadedOnce ==
    /\ load_calls <= 1
    /\ assignments <= 1

(***************************************************************************)
(* Properties of the enhancer queries.                                     *)
(***************************************************************************)
Queried == query_call.fn # "none"
QueryReturned == Queried /\ ~Raised(query_result)

\* the record list the call returned
returned_rows == IF QueryReturned THEN query_result.rows ELSE <<>>

\* the class of an enhancer: that of its row in enhancer_class, 'unlabeled' without one
ClassOf(e) ==
    LET rows == {c \in query_db.enhancer_class : c.enh_id = e.enh_id}
    IN  IF rows = {} THEN "unlabeled" ELSE (CHOOSE c \in rows : TRUE).class

NoClassRow(e) == \A c \in query_db.enhancer_class : c.enh_id # e.enh_id

\* the tissue of an enhancer, NULL read as 'Other'
TissueOf(e) == IF e.tissue = NULL THEN "Other" ELSE e.tissue

StoredEnhancers == Range(query_db.enhancers_all)

\* the enhancers the call asks for, but for the class: species, chromosome, half-open
\* overlap with the window, and the tissue unless it is 'Other'
InWindowOfCall(e) ==
    /\ e.species_id = query_call.species_id
    /\ e.chrom = query_call.chrom
    /\ e.start < query_call.end
    /\ e.end > query_call.start
    /\ (query_call.tissue # "Other" => TissueOf(e) = query_call.tissue)

\* the returned records that are the enhancer e (an interval names one enhancer)
RecordsOf(e) ==
    {k \in DOMAIN returned_rows :
        returned_rows[k].start = e.start /\ returned_rows[k].end = e.end}

\* the result is the enhancers of the set S, each once, with its class and tissue
ReturnsExactly(S) ==
    /\ Len(returned_rows) = Cardinality(S)
    /\ \A e \in S :
           \E k \in RecordsOf(e) :
               /\ returned_rows[k].class = ClassOf(e)
               /\ returned_rows[k].tissue = e.tissue
    /\ \A k \in DOMAIN returned_rows : \E e \in S : k \in RecordsOf(e)

IntervalQueries == {"get_enhancers_in_region", "get_enhancers_in_region_optimized"}

\* C15 as stated, for every class list: the interval query returns exactly the
\* enhancers of the requested species and chromosome that overlap the window
\* half-open, have the requested tissue (unless it is 'Other') and have a class of
\* the requested class list.
C15_QueryFiltersEveryClassList ==
    (QueryReturned /\ query_call.fn \in IntervalQueries) =>
        ReturnsExactly({e \in StoredEnhancers :
            InWindowOfCall(e) /\ ClassOf(e) \in Range(query_call.enhancer_classes)})

\* C15: for a class list that is not empty, get_enhancers_in_region and
\* get_enhancers_in_region_optimized return exactly the enhancers of the requested
\* species and chromosome that overlap the window half-open (start < window_end and
\* end > window_start), whose class is in the class list and, when tissue is not
\* 'Other', whose tissue (NULL read as 'Other') is the requested one; for the empty
\* class list they return these enhancers of every class.  (The tables of the model
\* are below the caps.)
C15_QueryFiltersByWindowTissueAndClass ==
    (QueryReturned /\ query_call.fn \in IntervalQueries) =>
        ReturnsExactly({e \in StoredEnhancers :
            /\ InWindowOfCall(e)
            /\ (query_call.enhancer_classes # <<>> =>
                    ClassOf(e) \in Range(query_call.enhancer_classes))})

\* a Liver query for 'unlabeled' over an enhancer inside the window and one that
\* touches the window's end: the first is returned alone
C15_Witness ==
    /\ query_call.fn = "get_enhancers_in_region_optimized"
    /\ query_call.tissue = "Liver"
    /\ query_call.enhancer_classes = <<"unlabeled">>
    /\ \E e \in StoredEnhancers : e.start = query_call.end
    /\ Len(returned_rows) = 1
    /\ returned_rows[1].start = 100
    /\ returned_rows[1].class = "unlabeled"

\* the enhancers the enhanced query reads: the rows of enhancers_hiconf
InSourceOfCall(e) ==
    query_call.fn = "get_enhancers_in_region_enhanced" =>
        (e.score # NullNumber /\ e.score > 5)

\* C17: every enhancer query reports an enhancer without a row in enhancer_class
\* with class 'unlabeled', returns it (when it is in the window asked for) if
\* 'unlabeled' is among the requested classes and leaves it out if not, and returns
\* only records whose class is one of the requested classes.
C17_UnlabeledIsTheDefaultClass ==
    Queried =>
        /\ ~Raised(query_result)
        /\ \A e \in StoredEnhancers :
               (NoClassRow(e) /\ InWindowOfCall(e) /\ InSourceOfCall(e)) =>
                   /\ \A k \in RecordsOf(e) : returned_rows[k].class = "unlabeled"
                   /\ (RecordsOf(e) # {}) <=>
                          ("unlabeled" \in Range(query_call.enhancer_classes))
        /\ \A k \in DOMAIN returned_rows :
               returned_rows[k].class \in Range(query_call.enhancer_classes)

(***************************************************************************)
(* Properties of the result sizes.                                         *)
(***************************************************************************)
\* the cap the claim names for each interval query
ClaimedCap(fn) ==
    CASE fn = "get_enhancers_in_region_optimized" -> 5000
      [] fn = "get_enhancers_in_region" -> 1000
      [] fn = "get_enhancers_in_region_enhanced" -> 1000
      [] fn = "get_gwas_snps_in_region_optimized" -> 50
      [] fn = "get_gwas_snps_in_region" -> 200
      [] fn = "get_ctcf_sites_in_region_optimized" -> 200
      [] fn = "get_ctcf_sites_in_region" -> 200

\* C16: every interval query returns at most the rows of its cap (enhancers 5000
\* optimized, 1000 base and enhanced; GWAS SNPs 50 optimized, 200 base; CTCF sites
\* 200, optimized and base), and the matrix builder is never given more than 5000
\* records.
C16_EveryIntervalQueryIsCapped ==
    /\ cap_call.fn # "none" => rows_fetched <= ClaimedCap(cap_call.fn)
    /\ builder_records <= 5000

(***************************************************************************)
(* Properties of the response cache and the health check.                  *)
(***************************************************************************)
HealthRequested ==
    /\ request # None
    /\ request.method = "GET"
    /\ request.path = HealthPath

\* C19: a GET /api/health/ that arrives while the database is unreachable is
\* answered 503 'unhealthy', and one answered 200 'healthy' had a SELECT 1 succeed
\* for it, in every sequence of requests through APIResponseCacheMiddleware.
C19_HealthCheckedOnTheRequestAnswered ==
    HealthRequested =>
        /\ ~db_on_arrival => response = HttpResponse(503, Json("unhealthy"))
        /\ response = HttpResponse(200, Json("healthy")) => select_1_ok

\* the keys the step writes an entry under
Written(before, after) ==
    {k \in DOMAIN after : k \notin DOMAIN before \/ after[k] # before[k]}

\* C20: an entry is written only for a GET request with '/api/' in its path whose
\* response has status 200 and a JSON body, and it is that body; so a request of
\* another method writes nothing, and it always runs the handler.
C20_OnlySuccessfulApiGetsAreCached ==
    [][/\ Written(api_cache, api_cache') # {} =>
              /\ request'.method = "GET"
              /\ IsApiPath(request'.path)
              /\ handler_invoked'
              /\ response'.status_code = 200
              /\ response'.content.kind = "json"
              /\ Written(api_cache, api_cache') = {_generate_cache_key(request')}
              /\ api_cache'[_generate_cache_key(request')] = response'.content.value
       /\ (request' # None /\ request'.method # "GET") => handler_invoked']_vars

\* a POST is handled although the cache holds a truthy entry for its path and query
C20_Witness ==
    /\ request # None
    /\ request.method = "POST"
    /\ IsApiPath(request.path)
    /\ _generate_cache_key(request) \in DOMAIN api_cache
    /\ Truthy(api_cache[_generate_cache_key(request)])
    /\ handler_invoked
    /\ response.status_code = 200
    /\ response.content.kind = "json"

(***************************************************************************)
(* Properties of ReadOnlyDatabaseMiddleware.                               *)
(***************************************************************************)
\* C21: in production on SQLite the handler of a request runs only after the pragma
\* query_only = ON was executed for that request and no handler writes a row; with
\* DEBUG true the pragma is never issued.
C21_HandlerRunsUnderQueryOnly ==
    /\ (~settings.DEBUG /\ IsSqlite(settings.ENGINE)) =>
           /\ handler_ran => pragma = "executed"
           /\ rows_written = 0
    /\ settings.DEBUG => pragmas_issued = 0

(***************************************************************************)
(* Properties of migrate_to_mysql.                                         *)
(***************************************************************************)
\* C22: with --dry-run the command executes no statement on MySQL, leaves every MySQL
\* table as it was, reads from the SQLite tables nothing but their row counts, and
\* writes for each table the number of its rows.
C22_DryRunChangesNothing ==
    migrate_options.dry_run =>
        /\ \A s \in statements : s.db = "sqlite" /\ s.kind \in {"SELECT name", "SELECT COUNT"}
        /\ mysql_db = mysql_before
        /\ migrated = {}
        /\ \A table \in DOMAIN reported : reported[table] = Len(sqlite_db[table])
        /\ migrate_pc = "returned" /\ statements # {} => DOMAIN reported = MigratedTables(sqlite_db)

\* a finished dry run over a table whose rows differ from those of the MySQL table
C22_Witness ==
    /\ migrate_options.dry_run
    /\ migrate_pc = "returned"
    /\ \E table \in DOMAIN reported :
           /\ reported[table] = MaxRows
           /\ mysql_db[table] = <<OldRow>>

\* C30: after a migration that ended with the success message every migrated MySQL
\* table holds exactly the rows of the SQLite table of the same name, whatever it
\* held before and also when the SQLite table is empty; and when migrate_table fails
\* for a table the command ends with an error and no later table is touched.
C30_MigratedTablesEqualTheirSource ==
    /\ migrate_pc = "SUCCESS" =>
           \A table \in MigratedTables(sqlite_db) : mysql_db[table] = sqlite_db[table]
    /\ (migrate_pc = "CommandError" /\ tables # <<>>) =>
           \A i \in 2..Len(tables) :
               /\ mysql_db[tables[i]] = mysql_before[tables[i]]
               /\ \A s \in statements : s.table # tables[i]

(***************************************************************************)
(* Properties of load_expression_data.                                     *)
(***************************************************************************)
\* a row with a symbol, a tissue and a numeric tpm
ValidRow(row) ==
    /\ row.symbol # None
    /\ row.tissue # None
    /\ row.tpm # None
    /\ ~Raised(Float(row.tpm.str))

\* the rows the loop has consumed
Consumed == 1..(next_row - 1)

RECURSIVE Flatten(_)
Flatten(seqs) == IF seqs = <<>> THEN <<>> ELSE Head(seqs) \o Flatten(Tail(seqs))

\* the records given to bulk_create so far, then those waiting in the batch
Kept ==
    Flatten(bulk_create_calls) \o (IF load_pc = "returned" THEN <<>> ELSE batch)

LinesKept == [i \in DOMAIN Kept |-> Kept[i].line]

\* C23: with batch_size >= 1 no bulk_create call receives more than batch_size
\* records; the valid rows consumed are kept exactly once and in file order, every
\* other row consumed is counted as skipped; and when handle has returned, every
\* valid row was given to bulk_create and total_count + skipped_count is the number
\* of rows of the file, total_count being the number of valid rows.
C23_RowsAreBatchedOrSkipped ==
    (load_options.batch_size >= 1 /\ load_pc # "start" /\ load_options.file_exists) =>
        /\ \A i \in DOMAIN bulk_create_calls :
               Len(bulk_create_calls[i]) <= load_options.batch_size
        /\ \A i \in DOMAIN LinesKept : ValidRow(load_file[LinesKept[i]])
        /\ \A i, j \in DOMAIN LinesKept : i < j => LinesKept[i] < LinesKept[j]
        /\ \A line \in Consumed :
               ValidRow(load_file[line]) => \E i \in DOMAIN LinesKept : LinesKept[i] = line
        /\ skipped_count = Cardinality({line \in Consumed : ~ValidRow(load_file[line])})
        /\ load_pc = "returned" =>
               /\ total_count = Cardinality({line \in DOMAIN load_file : ValidRow(load_file[line])})
               /\ total_count + skipped_count = Len(load_file)

(***************************************************************************)
(* Properties of the answers from the response cache.                      *)
(***************************************************************************)
ApiGetRequested ==
    /\ request # None
    /\ request.method = "GET"
    /\ IsApiPath(request.path)

\* the cache held, when the request arrived, an unexpired entry stored for a request
\* of the same path and the same query string
StoredForSameRequest ==
    /\ entry_on_arrival # None
    /\ entry_on_arrival.stored_for.path = request.path
    /\ entry_on_arrival.stored_for.query_string = request.query_string

ReturnedThreads == {t \in Threads : pc[t] = "done"}

\* the rows of the loaded table for the symbol, in any letter case
LoadedRows(gene_symbol) ==
    IF Upper(gene_symbol) \in DOMAIN _expression_cache
    THEN _expression_cache[Upper(gene_symbol)] ELSE <<>>

RECURSIVE SumOfTpm(_, _)
SumOfTpm(rows, indices) ==
    IF indices = {} THEN IntRat(0)
    ELSE LET i == CHOOSE j \in indices : TRUE
         IN  RatAdd(rows[i].tpm, SumOfTpm(rows, indices \ {i}))

\* the arithmetic mean of the loaded TPM values of the gene whose tissue name
\* contains the target tissue name, 0 when there is none
MeanTpm(gene_symbol, target_tissue) ==
    LET rows == LoadedRows(gene_symbol)
        indices == {i \in DOMAIN rows : rows[i].tissue \in TissueNamesContaining(target_tissue)}
    IN  IF indices = {} THEN IntRat(0)
        ELSE RatDiv(SumOfTpm(rows, indices), IntRat(Cardinality(indices)))

\* the number a returned tpm stands for is r; log10(x) = r for rationals x, r >= 0 with
\* x = r + 1 only when r = 0
TpmIs(tpm, r) ==
    IF tpm.log10 THEN r = IntRat(0) /\ tpm.of = IntRat(1) ELSE tpm.of = r

ThreeEntriesInOrder(t) ==
    LET entries == expr_result[t].expression_data
    IN  /\ Len(entries) = 3
        /\ [k \in 1..3 |-> entries[k].tissue] = <<"Brain", "Heart", "Liver">>
        /\ \A k \in 1..3 : entries[k].symbol = expr_args[t].gene_symbol

\* C25 as stated: every call returns three entries in the order Brain, Heart, Liver
\* and each tpm is the mean of the matching loaded values, 0.0 without a match.
C25_TpmIsTheMeanForEveryCall ==
    \A t \in ReturnedThreads :
        /\ ThreeEntriesInOrder(t)
        /\ \A k \in 1..3 :
               LET entry == expr_result[t].expression_data[k]
               IN  TpmIs(entry.tpm, MeanTpm(expr_args[t].gene_symbol, entry.tissue))

\* C25, amended: every call returns three entries in the order Brain, Heart, Liver;
\* with log_scale false each tpm is the mean of the matching loaded values, 0.0
\* without a match; with log_scale true it is log10 of that mean plus one; the loaded
\* table is the table that was read.
C25_TpmIsTheMeanOrItsLog ==
    /\ \A t \in ReturnedThreads :
           /\ ThreeEntriesInOrder(t)
           /\ \A k \in 1..3 :
                  LET entry == expr_result[t].expression_data[k]
                      mean == MeanTpm(expr_args[t].gene_symbol, entry.tissue)
                  IN  /\ entry.tpm.log10 = expr_args[t].log_scale
                      /\ entry.tpm.of = IF expr_args[t].log_scale
                                        THEN RatAdd(mean, IntRat(1)) ELSE mean
    /\ _expression_cache # None => _expression_cache = ReadExpressionFile(expression_file)

\* a call for bdnf without log_scale has returned 5/2 for Brain, the mean of 4 and 1
C25_Witness ==
    \E t \in ReturnedThreads :
        /\ expr_args[t] = [gene_symbol |-> "bdnf", log_scale |-> FALSE]
        /\ expr_result[t].expression_data[1].tpm.of = <<5, 2>>
        /\ expr_result[t].expression_data[2].tpm.of = IntRat(0)

(***************************************************************************)
(* Properties of the two copies of the builder taken together.             *)
(***************************************************************************)
\* C26: for nbins >= 1, what create_conservation_heatmap returns when its query
\* yields a record list is what create_conservation_heatmap_optimized returns on
\* that record list with the same region, class list, nbins, normalize flag and
\* gene: the same bins, classes, matrix, region_start, region_end, nbins, normalized
\* and tss_position.
C26_CopiesOfTheBuilderAgree ==
    (call.fn = "create_conservation_heatmap" /\ call.nbins >= 1) =>
        matrix_data = create_conservation_heatmap_optimized(
                          call.enhancers, call.start, call.end, call.enhancer_classes,
                          call.nbins, call.normalize_rows, call.gene_data)

\* the base copy has run on a query result of two records or more, with rows
\* normalized, and a record of the result ends or starts on a bin boundary
C26_Witness ==
    /\ call.fn = "create_conservation_heatmap"
    /\ call.nbins >= 2
    /\ call.normalize_rows
    /\ Len(call.enhancers) >= 2
    /\ ~Raised(matrix_data)
    /\ \E k \in DOMAIN call.enhancers, i \in DOMAIN matrix_data.bins :
           \/ IntRat(call.enhancers[k].end) = matrix_data.bins[i].start
           \/ IntRat(call.enhancers[k].start) = matrix_data.bins[i].end
    /\ \E c \in DOMAIN matrix_data.matrix :
           \E i \in DOMAIN matrix_data.matrix[c] :
           /\ matrix_data.matrix[c][i] # IntRat(0)
           /\ matrix_data.matrix[c][i] # IntRat(1)

(***************************************************************************)
(* Properties of the Quality Advisor in the endpoints.                     *)
(***************************************************************************)
\* the number of high-confidence enhancers of a tissue for a species
HiconfCount(species_id, tissue) ==
    IF tissue \in TissueNames THEN advisor_db.enhancers_hiconf[<<species_id, tissue>>] ELSE 0

\* C27: quality_warning of combined_gene_data is true exactly when the requested
\* tissue has fewer than 1000 high-confidence enhancers for the requested species,
\* for every count including 0, and tissue_quality is the coverage entry of that
\* tissue.
C27_WarningBelowThousand ==
    advisor_call.fn = "combined_gene_data" =>
        LET count == HiconfCount(advisor_call.species_id, advisor_call.tissue)
            info == advisor_response.qualityInfo
        IN  /\ info.quality_warning <=> (count < 1000)
            /\ info.tissue_quality = [tissue |-> advisor_call.tissue,
                                      enhancer_count |-> count,
                                      coverage_level |-> CoverageLevel(count)]

RecommendationTypes ==
    [i \in DOMAIN advisor_response.recommendations |-> advisor_response.recommendations[i].type]

Recommended(type) == \E i \in DOMAIN RecommendationTypes : RecommendationTypes[i] = type

\* C28: the recommendations of data_quality_summary are, in the order scores, tissues,
\* critical_data_gap and with nothing else: scores exactly when enhancers_total > 0
\* and 10 * enhancers_with_scores < 7 * enhancers_total; tissues exactly when a
\* tissue of the species has the level critical or low, naming exactly those; and
\* critical_data_gap exactly when the species is human and its Liver has fewer than
\* 50 high-confidence enhancers.
C28_RecommendationsFollowTheThresholds ==
    advisor_call.fn = "data_quality_summary" =>
        LET species_id == advisor_call.species_id
            total == advisor_db.enhancers_total[species_id]
            with_scores == advisor_db.enhancers_with_scores[species_id]
            low == {t \in TissueNames :
                        /\ HiconfCount(species_id, t) > 0
                        /\ HiconfCount(species_id, t) < 1000}
        IN  /\ RecommendationTypes \in
                   {<<>>, <<"scores">>, <<"tissues">>, <<"critical_data_gap">>,
                    <<"scores", "tissues">>, <<"scores", "critical_data_gap">>,
                    <<"tissues", "critical_data_gap">>,
                    <<"scores", "tissues", "critical_data_gap">>}
            /\ Recommended("scores") <=> (total > 0 /\ 10 * with_scores < 7 * total)
            /\ Recommended("tissues") <=> (low # {})
            /\ \A i \in DOMAIN advisor_response.recommendations :
                   advisor_response.recommendations[i].type = "tissues" =>
                       Range(advisor_response.recommendations[i].tissue_names) = low
            /\ Recommended("critical_data_gap") <=>
                   (species_id = "human_hg38" /\ HiconfCount(species_id, "Liver") < 50)

(***************************************************************************)
(* The enhancer query and the builder on one window: get_combined_region_  *)
(* data and create_conservation_heatmap hand the builder the records the   *)
(* query returned for the window the bins divide.                          *)
(***************************************************************************)
\* the WHERE clause of the query on the window of the call, and start < end
InWindow(r) == r.start < call.end /\ r.end > call.start /\ r.start < r.end

\* the record list is a result of the enhancer query for the window of the call: the
\* base copy runs the query itself, the optimized copy is handed the list
FromWindowQuery ==
    \/ call.fn = "create_conservation_heatmap"
    \/ \A k \in DOMAIN call.enhancers : InWindow(call.enhancers[k])

\* the bins of the result that record k is counted in
CountedIn(k) ==
    {i \in DOMAIN matrix_data.bins : HalfOpenOverlap(call.enhancers[k], matrix_data.bins[i])}

\* the input records of class classes[c]
RecordsOfClass(c) ==
    {k \in DOMAIN call.enhancers : call.enhancers[k].class = call.enhancer_classes[c]}

RECURSIVE RowTotal(_)
RowTotal(row) == IF row = <<>> THEN 0 ELSE Head(row) + RowTotal(Tail(row))

====
